------------------------------ MODULE Indexer ------------------------------
(***************************************************************************)
(* The indexing pass of core/indexing/indexer.py: how the files of the     *)
(* checkout get into the graph (core/graph), one transaction after         *)
(* another, and what a pass that is cut short leaves for the next one.     *)
(*                                                                         *)
(* The agent runs one pass at a time (IndexJob has its lock).  Every row   *)
(* of a write is a step, because run_write_batch splits a statement into   *)
(* transactions.  A pass is cut short by a crash of the agent, or by an    *)
(* exception of Neo4j, which clone_and_index reports as an error.          *)
(*                                                                         *)
(* Abstractions.  What a file holds is its version.  Its graph is its      *)
(* :File node, its :Module and the entities in it (classes, functions,     *)
(* methods and what hangs on them), which belong to the version they were  *)
(* parsed from, and edges (CALLS, INHERITS_FROM, DEPENDS_ON) to files its  *)
(* code refers to; entities of different files have different names.  The  *)
(* checkout does not change while a pass reads it: git runs before, under  *)
(* the same lock.  Shared decorators, schema and counts are left out.      *)
(***************************************************************************)
EXTENDS Naturals

CONSTANTS Files,     \* paths
          Versions,  \* contents that parse
          Absent, Broken,  \* no such file (node); a file that does not parse
          Refers,    \* Refers[f][v]: the files that f refers to in version v
          Backends,  \* embedding backends
          NoVector

ASSUME IndexerAssumption == /\ Absent \notin Versions /\ Broken \notin Versions
                            /\ Absent # Broken
                            /\ Refers \in [Files -> [Versions -> SUBSET Files]]
                            /\ NoVector \notin Backends

VARIABLES tree,         \* the checkout
          fileHash,     \* :File nodes and their content_hash
          modules,      \* :Module nodes
          members,      \* the entities of a file
          edges,
          vectors,      \* the backend the embeddings of a file's entities came from
          indexVersion, \* :Meta index_version, a digest of all content hashes
          fingerprint,  \* :Meta embedding_fingerprint
          backend,      \* EMBEDDING_BACKEND
          pass,         \* the pass in progress
          cut           \* history: files a pass cut short was writing, not written since

graph == <<fileHash, modules, members, edges, vectors>>
meta == <<indexVersion, fingerprint>>
vars == <<tree, graph, meta, backend, pass, cut>>

Hashes == [Files -> Versions \cup {Absent}]

\* todo: the rows of the statement that are not written yet; parsed: to_upsert.
Pass == [pc : {"idle", "purge", "delete", "files", "modules", "members", "edges",
               "embed", "version", "done"},
         scope : {"full", "incremental", "file"},
         todo : SUBSET (Files \cup (Files \X Files)),
         parsed : SUBSET Files, changed : SUBSET Files, embedded : BOOLEAN]
NoPass == [pc |-> "idle", scope |-> "file", todo |-> {}, parsed |-> {}, changed |-> {},
           embedded |-> FALSE]

TypeOK == /\ tree \in [Files -> Versions \cup {Absent, Broken}]
          /\ fileHash \in Hashes /\ modules \in Hashes /\ members \in Hashes
          /\ edges \subseteq Files \X Files
          /\ vectors \in [Files -> Backends \cup {NoVector}]
          /\ indexVersion \in Hashes
          /\ fingerprint \in Backends \cup {NoVector}
          /\ backend \in Backends
          /\ pass \in Pass
          /\ cut \subseteq Files

NoFiles == [f \in Files |-> Absent]

Init == /\ tree = NoFiles
        /\ fileHash = NoFiles /\ modules = NoFiles /\ members = NoFiles
        /\ edges = {}
        /\ vectors = [f \in Files |-> NoVector]
        /\ indexVersion = NoFiles
        /\ fingerprint = NoVector
        /\ backend \in Backends
        /\ pass = NoPass
        /\ cut = {}

-----------------------------------------------------------------------------
(* Between passes.                                                          *)

\* The checkout moves on: clone_repo at the start of a pass, or an editor.
Edit(f, content) ==
    /\ pass.pc = "idle"
    /\ tree[f] # content
    /\ tree' = [tree EXCEPT ![f] = content]
    /\ UNCHANGED <<graph, meta, backend, pass, cut>>

\* The agents are restarted with another EMBEDDING_BACKEND.
SwitchBackend(b) ==
    /\ pass.pc = "idle"
    /\ backend' = b
    /\ UNCHANGED <<tree, graph, meta, pass, cut>>

-----------------------------------------------------------------------------
(* What a pass has to do.                                                   *)

Parsable(f) == tree[f] \in Versions
Indexed(f) == fileHash[f] # Absent

\* (mutant) files that do not parse are upserted as well
ToUpsertUnparsed(mode) == {f \in Files : tree[f] # Absent /\ (mode = "full" \/ fileHash[f] # tree[f])}

\* (mutant) the mode is not looked at
ToUpsertAnyMode(mode) == {f \in Files : Parsable(f) /\ fileHash[f] # tree[f]}

\* index_repository: walk, compare hashes, parse.  Files that do not parse are
\* reported and keep what the graph has of them.
ToUpsert(mode) == {f \in Files : Parsable(f) /\ (mode = "full" \/ fileHash[f] # tree[f])}

\* (mutant) a file that is gone counts as unchanged
StaleForgotten == {f \in Files : Indexed(f) /\ tree[f] = Broken}

Stale == {f \in Files : Indexed(f) /\ tree[f] = Absent}

IndexRepository(mode) ==
    /\ pass.pc = "idle"
    /\ pass' = [NoPass EXCEPT !.pc = "purge", !.scope = mode, !.todo = Stale,
                              !.parsed = ToUpsert(mode),
                              !.changed = {f \in ToUpsert(mode) : Indexed(f)}]
    /\ UNCHANGED <<tree, graph, meta, backend, cut>>

\* index_file: nothing to do for a file that is missing, unchanged or broken.
IndexFile(f) ==
    /\ pass.pc = "idle"
    /\ Parsable(f) /\ fileHash[f] # tree[f]
    /\ LET changed == IF Indexed(f) THEN {f} ELSE {}
       IN pass' = [NoPass EXCEPT !.pc = "delete", !.todo = changed,
                                 !.parsed = {f}, !.changed = changed]
    /\ UNCHANGED <<tree, graph, meta, backend, cut>>

-----------------------------------------------------------------------------
(* The statements of a pass, in their order; one row a step.                *)

Writing(pc, row) == /\ pass.pc = pc
                    /\ row \in pass.todo
                    /\ pass' = [pass EXCEPT !.todo = @ \ {row}]
                    /\ UNCHANGED <<tree, meta, backend, cut>>

\* (mutant) only the :File node and its module are matched
DeleteFileNode(f) ==
    /\ fileHash' = [fileHash EXCEPT ![f] = Absent]
    /\ modules' = [modules EXCEPT ![f] = Absent]
    /\ UNCHANGED <<members, edges, vectors>>

\* (mutant) only edges into the file are deleted with it
DeleteIncoming(f) ==
    /\ fileHash' = [fileHash EXCEPT ![f] = Absent]
    /\ modules' = [modules EXCEPT ![f] = Absent]
    /\ members' = [members EXCEPT ![f] = Absent]
    /\ vectors' = [vectors EXCEPT ![f] = NoVector]
    /\ edges' = {e \in edges : e[2] # f}

\* delete_file_subtree: DETACH DELETE of the :File and everything it owns.
DeleteSubtree(f) ==
    /\ fileHash' = [fileHash EXCEPT ![f] = Absent]
    /\ modules' = [modules EXCEPT ![f] = Absent]
    /\ members' = [members EXCEPT ![f] = Absent]
    /\ vectors' = [vectors EXCEPT ![f] = NoVector]
    /\ edges' = {e \in edges : f \notin {e[1], e[2]}}

Purge(f) == Writing("purge", f) /\ DeleteSubtree(f)
Delete(f) == Writing("delete", f) /\ DeleteSubtree(f)

UpsertFile(f) == /\ Writing("files", f)
                 /\ fileHash' = [fileHash EXCEPT ![f] = tree[f]]
                 /\ UNCHANGED <<modules, members, edges, vectors>>

UpsertModule(f) == /\ Writing("modules", f)
                   /\ modules' = [modules EXCEPT ![f] = tree[f]]
                   /\ UNCHANGED <<fileHash, members, edges, vectors>>

\* Classes, functions, methods; CONTAINS, parameters, decorators, docstrings.
UpsertMembers(f) == /\ Writing("members", f)
                    /\ members' = [members EXCEPT ![f] = tree[f]]
                    /\ UNCHANGED <<fileHash, modules, edges, vectors>>

UpsertEdge(e) == /\ Writing("edges", e)
                 /\ edges' = edges \cup {e}
                 /\ UNCHANGED <<fileHash, modules, members, vectors>>

\* The names in the graph are read once all entities are written: a reference
\* becomes an edge when it names something indexed.
Resolved(f) == {f} \X {g \in Refers[f][tree[f]] : members[g] # Absent}

UpsertEmbedding(f) ==
    /\ pass.pc = "embed" /\ f \in pass.todo
    /\ vectors' = [vectors EXCEPT ![f] = backend]
    /\ pass' = [pass EXCEPT !.todo = @ \ {f}, !.embedded = TRUE]
    /\ UNCHANGED <<tree, fileHash, modules, members, edges, meta, backend, cut>>

\* The embedding backend fails: the rest of the vectors is left out.
EmbeddingFails ==
    /\ pass.pc = "embed" /\ pass.todo # {}
    /\ pass' = [pass EXCEPT !.todo = {}]
    /\ UNCHANGED <<tree, graph, meta, backend, cut>>

\* On to the next statement.
Then(from, to, todo) == /\ pass.pc = from /\ pass.todo = {}
                        /\ pass' = [pass EXCEPT !.pc = to, !.todo = todo]

NextStatement ==
    /\ \/ Then("purge", "delete", pass.changed)
       \/ Then("delete", "files", pass.parsed)
       \/ Then("files", "modules", pass.parsed)
       \/ Then("modules", "members", pass.parsed)
       \/ Then("members", "edges", UNION {Resolved(f) : f \in pass.parsed})
       \/ Then("edges", "embed", pass.parsed)
    /\ UNCHANGED <<tree, graph, meta, backend, cut>>

\* The fingerprint of the backend, if any vector was written.
RecordFingerprint ==
    /\ Then("embed", "version", {})
    /\ fingerprint' = IF pass.embedded THEN backend ELSE fingerprint
    /\ UNCHANGED <<tree, graph, indexVersion, backend, cut>>

\* _update_index_version, the last write of a pass.
UpdateIndexVersion ==
    /\ Then("version", "done", {})
    /\ indexVersion' = fileHash
    /\ cut' = cut \ pass.parsed
    /\ UNCHANGED <<tree, graph, fingerprint, backend>>

Return == /\ pass.pc = "done"
          /\ pass' = NoPass
          /\ UNCHANGED <<tree, graph, meta, backend, cut>>

CutShort == /\ pass.pc \notin {"idle", "done"}
            /\ pass' = NoPass
            /\ cut' = cut \cup pass.parsed
            /\ UNCHANGED <<tree, graph, meta, backend>>

-----------------------------------------------------------------------------
Next == \/ \E f \in Files : \/ \E content \in Versions \cup {Absent, Broken} : Edit(f, content)
                            \/ IndexFile(f)
                            \/ Purge(f) \/ Delete(f)
                            \/ UpsertFile(f) \/ UpsertModule(f) \/ UpsertMembers(f)
                            \/ UpsertEmbedding(f)
        \/ \E e \in Files \X Files : UpsertEdge(e)
        \/ \E b \in Backends : SwitchBackend(b)
        \/ \E mode \in {"full", "incremental"} : IndexRepository(mode)
        \/ NextStatement \/ EmbeddingFails \/ RecordFingerprint \/ UpdateIndexVersion
        \/ Return \/ CutShort

Spec == Init /\ [][Next]_vars

-----------------------------------------------------------------------------
(* Wherever a pass is cut short, what it leaves can be found again: the     *)
(* graph of a file never outlives, nor comes before, the :File node that    *)
(* load_file_hashes shows the next pass.                                    *)
OwnedByFile == \A f \in Files : ~Indexed(f) => modules[f] = Absent /\ members[f] = Absent

(* An edge is never left over from an older version of the file it comes    *)
(* from, and never ends at a file that is gone.                             *)
NoStaleEdges == \A e \in edges : /\ members[e[1]] # Absent
                                 /\ e[2] \in Refers[e[1]][members[e[1]]]
                                 /\ members[e[2]] # Absent

Reflected(f) == fileHash[f] = tree[f] /\ modules[f] = tree[f] /\ members[f] = tree[f]
Completed(scopes) == pass.pc = "done" /\ pass.scope \in scopes

(* mode="full" is the escape hatch: a full pass that completes leaves the   *)
(* graph of the checkout with all its edges, whatever was there before and  *)
(* however many passes were cut short.                                      *)
FullPassReflectsTree ==
    Completed({"full"}) => \A f \in Files :
       /\ tree[f] = Absent => fileHash[f] = Absent /\ members[f] = Absent
       /\ Parsable(f) => /\ Reflected(f)
                         /\ \A g \in Refers[f][tree[f]] : members[g] # Absent => <<f, g>> \in edges

(* An incremental pass that completes leaves the nodes of the checkout,     *)
(* except of files at which an earlier pass was cut short, under the index  *)
(* version of that checkout.                                                *)
IncrementalReflectsTree ==
    Completed({"incremental"}) =>
       /\ indexVersion = fileHash
       /\ \A f \in Files \ cut :
             /\ tree[f] = Absent => fileHash[f] = Absent /\ members[f] = Absent
             /\ Parsable(f) => Reflected(f)
=============================================================================
