--------------------------- MODULE IndexerProofs ---------------------------
(***************************************************************************)
(* Proofs about Indexer, for any number of files, versions and backends.   *)
(* The invariant follows a pass through its statements: what each one has  *)
(* left, file by file (Stages), which rows remain (Rows, Purged) and what  *)
(* the pass set out to do (Planned).                                       *)
(***************************************************************************)
EXTENDS Indexer, TLAPS

\* What a pass has planned, and what it leaves alone.
Planned == pass.pc # "idle" =>
    /\ \A f \in pass.parsed : Parsable(f)
    /\ pass.changed \subseteq pass.parsed
    /\ pass.scope = "full" => \A f \in Files : Parsable(f) => f \in pass.parsed
    /\ pass.scope = "incremental" =>
          \A f \in Files \ pass.parsed : Parsable(f) => fileHash[f] = tree[f]

\* The rows of the statement being written.
Rows == /\ pass.pc = "purge" => \A f \in pass.todo : f \in Files /\ tree[f] = Absent
        /\ pass.pc = "delete" => pass.todo \subseteq pass.changed
        /\ pass.pc \in {"files", "modules", "members", "embed"} => pass.todo \subseteq pass.parsed
        /\ pass.pc = "edges" => \A e \in pass.todo : e[1] \in pass.parsed /\ e \in Resolved(e[1])

\* Files that are gone have been purged, or are still to be.
Purged == pass.scope # "file" /\ pass.pc # "idle" =>
    \A f \in Files : Indexed(f) /\ tree[f] = Absent => pass.pc = "purge" /\ f \in pass.todo

\* How far the files being written have come.
Stages == \A f \in pass.parsed :
    /\ pass.pc = "purge" /\ f \notin pass.changed => ~Indexed(f)
    /\ pass.pc = "delete" /\ f \notin pass.todo => ~Indexed(f)
    /\ pass.pc = "files" => /\ modules[f] = Absent /\ members[f] = Absent
                            /\ fileHash[f] = IF f \in pass.todo THEN Absent ELSE tree[f]
    /\ pass.pc = "modules" => /\ fileHash[f] = tree[f] /\ members[f] = Absent
                              /\ modules[f] = IF f \in pass.todo THEN Absent ELSE tree[f]
    /\ pass.pc = "members" => /\ fileHash[f] = tree[f] /\ modules[f] = tree[f]
                              /\ members[f] = IF f \in pass.todo THEN Absent ELSE tree[f]
    /\ pass.pc \in {"edges", "embed", "version", "done"} => Reflected(f)

EdgesWritten == \A f \in pass.parsed : \A g \in Files :
    /\ pass.pc = "edges" => (<<f, g>> \in Resolved(f) => <<f, g>> \in edges \cup pass.todo)
    /\ pass.pc \in {"embed", "version", "done"} => (<<f, g>> \in Resolved(f) => <<f, g>> \in edges)

\* A hash tells what the graph holds of a file, unless a pass is writing it
\* or was cut short there.
Whole == \A f \in Files \ cut : pass.pc \in {"idle", "done"} \/ f \notin pass.parsed =>
            modules[f] = fileHash[f] /\ members[f] = fileHash[f]

Versioned == pass.pc = "done" => indexVersion = fileHash

IndexerInv == /\ TypeOK /\ OwnedByFile /\ NoStaleEdges
              /\ Planned /\ Rows /\ Purged /\ Stages /\ EdgesWritten
              /\ Whole /\ Versioned

-----------------------------------------------------------------------------

\* Nothing is being written.
LEMMA EditKeeps ==
  ASSUME IndexerInv, NEW f \in Files, NEW content \in Versions \cup {Absent, Broken}, Edit(f,
         content)
  PROVE  IndexerInv'
<1>1. TypeOK'
  BY IndexerAssumption DEF IndexerInv, TypeOK, Hashes, Pass, Edit, graph,
     meta
<1>2. (OwnedByFile /\ NoStaleEdges)'
  BY IndexerAssumption DEF IndexerInv, OwnedByFile, Indexed, NoStaleEdges,
     Edit, graph, meta
<1>3. (Planned /\ Rows /\ Purged)'
  BY IndexerAssumption DEF IndexerInv, Planned, Parsable, Rows, Resolved,
     Purged, Indexed, Edit, graph, meta
<1>4. (Stages /\ EdgesWritten)'
  BY IndexerAssumption DEF IndexerInv, Stages, Reflected, Indexed,
     EdgesWritten, Resolved, Edit, graph, meta
<1>5. (Whole /\ Versioned)'
  BY IndexerAssumption DEF IndexerInv, Whole, Versioned, Edit, graph, meta
<1>6. QED
  BY <1>1, <1>2, <1>3, <1>4, <1>5 DEF IndexerInv

LEMMA SwitchBackendKeeps ==
  ASSUME IndexerInv, NEW b \in Backends, SwitchBackend(b)
  PROVE  IndexerInv'
BY IndexerAssumption DEF IndexerInv, TypeOK, Hashes, Pass, OwnedByFile,
   Indexed, NoStaleEdges, Planned, Parsable, Rows, Resolved, Purged,
   Stages, Reflected, EdgesWritten, Whole, Versioned, SwitchBackend,
   graph, meta

\* The plan.
LEMMA IndexRepositoryKeeps ==
  ASSUME IndexerInv, NEW mode \in {"full", "incremental"},
         IndexRepository(mode)
  PROVE  IndexerInv'
<1>1. TypeOK'
  BY IndexerAssumption DEF IndexerInv, TypeOK, Hashes, Pass,
     IndexRepository, NoPass, ToUpsert, Stale, graph, meta
<1>2. (OwnedByFile /\ NoStaleEdges)'
  BY IndexerAssumption DEF IndexerInv, OwnedByFile, Indexed, NoStaleEdges,
     IndexRepository, NoPass, ToUpsert, Stale, graph, meta
<1>3. (Planned /\ Rows /\ Purged)'
  BY IndexerAssumption DEF IndexerInv, Planned, Parsable, Rows, Resolved,
     Purged, Indexed, IndexRepository, NoPass, ToUpsert, Stale, graph,
     meta
<1>4. (Stages /\ EdgesWritten)'
  BY IndexerAssumption DEF IndexerInv, Stages, Reflected, Indexed,
     EdgesWritten, Resolved, IndexRepository, NoPass, ToUpsert, Stale,
     graph, meta
<1>5. (Whole /\ Versioned)'
  BY IndexerAssumption DEF IndexerInv, Whole, Versioned, IndexRepository,
     NoPass, ToUpsert, Stale, graph, meta
<1>6. QED
  BY <1>1, <1>2, <1>3, <1>4, <1>5 DEF IndexerInv

LEMMA IndexFileKeeps ==
  ASSUME IndexerInv, NEW f \in Files, IndexFile(f)
  PROVE  IndexerInv'
<1>1. TypeOK'
  BY IndexerAssumption DEF IndexerInv, TypeOK, Hashes, Pass, IndexFile,
     NoPass, graph, meta
<1>2. (OwnedByFile /\ NoStaleEdges)'
  BY IndexerAssumption DEF IndexerInv, OwnedByFile, Indexed, NoStaleEdges,
     IndexFile, NoPass, graph, meta
<1>3. (Planned /\ Rows /\ Purged)'
  BY IndexerAssumption DEF IndexerInv, Planned, Parsable, Rows, Resolved,
     Purged, Indexed, IndexFile, NoPass, graph, meta
<1>4. (Stages /\ EdgesWritten)'
  BY IndexerAssumption DEF IndexerInv, Stages, Reflected, Indexed,
     EdgesWritten, Resolved, IndexFile, NoPass, graph, meta
<1>5. (Whole /\ Versioned)'
  BY IndexerAssumption DEF IndexerInv, Whole, Versioned, IndexFile,
     NoPass, graph, meta
<1>6. QED
  BY <1>1, <1>2, <1>3, <1>4, <1>5 DEF IndexerInv

\* The files purged are gone, so none of them is to be written.
LEMMA PurgeKeeps ==
  ASSUME IndexerInv, NEW f \in Files, Purge(f)
  PROVE  IndexerInv'
<1>1. TypeOK'
  BY IndexerAssumption DEF IndexerInv, TypeOK, Hashes, Pass, Purge,
     Writing, DeleteSubtree, meta
<1>2. (OwnedByFile /\ NoStaleEdges)'
  BY IndexerAssumption DEF IndexerInv, OwnedByFile, Indexed, TypeOK,
     Hashes, Pass, NoStaleEdges, Purge, Writing, DeleteSubtree, meta
<1>3. (Planned /\ Rows /\ Purged)'
  BY IndexerAssumption DEF IndexerInv, Planned, Parsable, Rows, Resolved,
     Purged, Indexed, TypeOK, Hashes, Pass, Purge, Writing, DeleteSubtree,
     meta
<1>4. (Stages /\ EdgesWritten)'
  BY IndexerAssumption DEF IndexerInv, Stages, Reflected, Indexed,
     EdgesWritten, Resolved, Purge, Writing, DeleteSubtree, meta
<1>5. (Whole /\ Versioned)'
  BY IndexerAssumption DEF IndexerInv, Whole, TypeOK, Hashes, Pass,
     Versioned, Purge, Writing, DeleteSubtree, meta
<1>6. QED
  BY <1>1, <1>2, <1>3, <1>4, <1>5 DEF IndexerInv

LEMMA DeleteKeeps ==
  ASSUME IndexerInv, NEW f \in Files, Delete(f)
  PROVE  IndexerInv'
<1>1. TypeOK'
  BY IndexerAssumption DEF IndexerInv, TypeOK, Hashes, Pass, Delete,
     Writing, DeleteSubtree, meta
<1>2. (OwnedByFile /\ NoStaleEdges)'
  BY IndexerAssumption DEF IndexerInv, OwnedByFile, Indexed, TypeOK,
     Hashes, Pass, NoStaleEdges, Delete, Writing, DeleteSubtree, meta
<1>3. (Planned /\ Rows /\ Purged)'
  BY IndexerAssumption DEF IndexerInv, Planned, Parsable, Rows, Resolved,
     Purged, Indexed, Delete, Writing, DeleteSubtree, meta
<1>4. (Stages /\ EdgesWritten)'
  BY IndexerAssumption DEF IndexerInv, Stages, Reflected, Indexed, TypeOK,
     Hashes, Pass, EdgesWritten, Resolved, Delete, Writing, DeleteSubtree,
     meta
<1>5. (Whole /\ Versioned)'
  BY IndexerAssumption DEF IndexerInv, Whole, TypeOK, Hashes, Pass,
     Versioned, Delete, Writing, DeleteSubtree, meta
<1>6. QED
  BY <1>1, <1>2, <1>3, <1>4, <1>5 DEF IndexerInv

LEMMA UpsertFileKeeps ==
  ASSUME IndexerInv, NEW f \in Files, UpsertFile(f)
  PROVE  IndexerInv'
<1>1. TypeOK'
  BY IndexerAssumption DEF IndexerInv, TypeOK, Hashes, Pass, Rows,
     Resolved, Stages, Reflected, Indexed, Planned, Parsable, UpsertFile,
     Writing, meta
<1>2. (OwnedByFile /\ NoStaleEdges)'
  BY IndexerAssumption DEF IndexerInv, OwnedByFile, Indexed, Rows,
     Resolved, Stages, Reflected, NoStaleEdges, UpsertFile, Writing, meta
<1>3. (Planned /\ Rows /\ Purged)'
  BY IndexerAssumption DEF IndexerInv, Planned, Parsable, Rows, Resolved,
     Purged, Indexed, UpsertFile, Writing, meta
<1>4. (Stages /\ EdgesWritten)'
  BY IndexerAssumption DEF IndexerInv, Stages, Reflected, Indexed, TypeOK,
     Hashes, Pass, EdgesWritten, Resolved, UpsertFile, Writing, meta
<1>5. (Whole /\ Versioned)'
  BY IndexerAssumption DEF IndexerInv, Whole, Rows, Resolved, Versioned,
     UpsertFile, Writing, meta
<1>6. QED
  BY <1>1, <1>2, <1>3, <1>4, <1>5 DEF IndexerInv

LEMMA UpsertModuleKeeps ==
  ASSUME IndexerInv, NEW f \in Files, UpsertModule(f)
  PROVE  IndexerInv'
<1>1. TypeOK'
  BY IndexerAssumption DEF IndexerInv, TypeOK, Hashes, Pass, Rows,
     Resolved, Stages, Reflected, Indexed, UpsertModule, Writing, meta
<1>2. (OwnedByFile /\ NoStaleEdges)'
  BY IndexerAssumption DEF IndexerInv, OwnedByFile, Indexed, Rows,
     Resolved, Stages, Reflected, NoStaleEdges, UpsertModule, Writing,
     meta
<1>3. (Planned /\ Rows /\ Purged)'
  BY IndexerAssumption DEF IndexerInv, Planned, Parsable, Rows, Resolved,
     Purged, Indexed, UpsertModule, Writing, meta
<1>4. (Stages /\ EdgesWritten)'
  BY IndexerAssumption DEF IndexerInv, Stages, Reflected, Indexed, TypeOK,
     Hashes, Pass, EdgesWritten, Resolved, UpsertModule, Writing, meta
<1>5. (Whole /\ Versioned)'
  BY IndexerAssumption DEF IndexerInv, Whole, Rows, Resolved, Versioned,
     UpsertModule, Writing, meta
<1>6. QED
  BY <1>1, <1>2, <1>3, <1>4, <1>5 DEF IndexerInv

\* The file has no edges yet, as it had no entities.
LEMMA UpsertMembersKeeps ==
  ASSUME IndexerInv, NEW f \in Files, UpsertMembers(f)
  PROVE  IndexerInv'
<1>1. TypeOK'
  BY IndexerAssumption DEF IndexerInv, TypeOK, Hashes, Pass, Rows,
     Resolved, Stages, Reflected, Indexed, UpsertMembers, Writing, meta
<1>2. (OwnedByFile /\ NoStaleEdges)'
  BY IndexerAssumption DEF IndexerInv, OwnedByFile, Indexed, Rows,
     Resolved, Stages, Reflected, NoStaleEdges, UpsertMembers, Writing,
     meta
<1>3. (Planned /\ Rows /\ Purged)'
  BY IndexerAssumption DEF IndexerInv, Planned, Parsable, Rows, Resolved,
     Purged, Indexed, UpsertMembers, Writing, meta
<1>4. (Stages /\ EdgesWritten)'
  BY IndexerAssumption DEF IndexerInv, Stages, Reflected, Indexed, TypeOK,
     Hashes, Pass, EdgesWritten, Resolved, UpsertMembers, Writing, meta
<1>5. (Whole /\ Versioned)'
  BY IndexerAssumption DEF IndexerInv, Whole, Rows, Resolved, Versioned,
     UpsertMembers, Writing, meta
<1>6. QED
  BY <1>1, <1>2, <1>3, <1>4, <1>5 DEF IndexerInv

\* Both ends are indexed, and the row was resolved from the version being written.
LEMMA UpsertEdgeKeeps ==
  ASSUME IndexerInv, NEW e \in Files \X Files, UpsertEdge(e)
  PROVE  IndexerInv'
<1>1. TypeOK'
  BY IndexerAssumption DEF IndexerInv, TypeOK, Hashes, Pass, UpsertEdge,
     Writing, meta
<1>2. (OwnedByFile /\ NoStaleEdges)'
  BY IndexerAssumption DEF IndexerInv, OwnedByFile, Indexed, NoStaleEdges,
     TypeOK, Hashes, Pass, Rows, Resolved, Stages, Reflected, Planned,
     Parsable, UpsertEdge, Writing, meta
<1>3. (Planned /\ Rows /\ Purged)'
  BY IndexerAssumption DEF IndexerInv, Planned, Parsable, Rows, Resolved,
     Purged, Indexed, UpsertEdge, Writing, meta
<1>4. (Stages /\ EdgesWritten)'
  BY IndexerAssumption DEF IndexerInv, Stages, Reflected, Indexed,
     EdgesWritten, Resolved, TypeOK, Hashes, Pass, UpsertEdge, Writing,
     meta
<1>5. (Whole /\ Versioned)'
  BY IndexerAssumption DEF IndexerInv, Whole, Versioned, UpsertEdge,
     Writing, meta
<1>6. QED
  BY <1>1, <1>2, <1>3, <1>4, <1>5 DEF IndexerInv

LEMMA UpsertEmbeddingKeeps ==
  ASSUME IndexerInv, NEW f \in Files, UpsertEmbedding(f)
  PROVE  IndexerInv'
<1>1. TypeOK'
  BY IndexerAssumption DEF IndexerInv, TypeOK, Hashes, Pass,
     UpsertEmbedding, meta
<1>2. (OwnedByFile /\ NoStaleEdges)'
  BY IndexerAssumption DEF IndexerInv, OwnedByFile, Indexed, NoStaleEdges,
     UpsertEmbedding, meta
<1>3. (Planned /\ Rows /\ Purged)'
  BY IndexerAssumption DEF IndexerInv, Planned, Parsable, Rows, Resolved,
     Purged, Indexed, UpsertEmbedding, meta
<1>4. (Stages /\ EdgesWritten)'
  BY IndexerAssumption DEF IndexerInv, Stages, Reflected, Indexed,
     EdgesWritten, Resolved, TypeOK, Hashes, Pass, UpsertEmbedding, meta
<1>5. (Whole /\ Versioned)'
  BY IndexerAssumption DEF IndexerInv, Whole, Versioned, UpsertEmbedding,
     meta
<1>6. QED
  BY <1>1, <1>2, <1>3, <1>4, <1>5 DEF IndexerInv

LEMMA EmbeddingFailsKeeps ==
  ASSUME IndexerInv, EmbeddingFails
  PROVE  IndexerInv'
<1>1. TypeOK'
  BY IndexerAssumption DEF IndexerInv, TypeOK, Hashes, Pass,
     EmbeddingFails, graph, meta
<1>2. (OwnedByFile /\ NoStaleEdges)'
  BY IndexerAssumption DEF IndexerInv, OwnedByFile, Indexed, NoStaleEdges,
     EmbeddingFails, graph, meta
<1>3. (Planned /\ Rows /\ Purged)'
  BY IndexerAssumption DEF IndexerInv, Planned, Parsable, Rows, Resolved,
     Purged, Indexed, EmbeddingFails, graph, meta
<1>4. (Stages /\ EdgesWritten)'
  BY IndexerAssumption DEF IndexerInv, Stages, Reflected, Indexed,
     EdgesWritten, Resolved, TypeOK, Hashes, Pass, EmbeddingFails, graph,
     meta
<1>5. (Whole /\ Versioned)'
  BY IndexerAssumption DEF IndexerInv, Whole, Versioned, EmbeddingFails,
     graph, meta
<1>6. QED
  BY <1>1, <1>2, <1>3, <1>4, <1>5 DEF IndexerInv

\* A reference resolved is a pair of files.
LEMMA ResolvedTyped ==
  ASSUME TypeOK, NEW f \in Files, Parsable(f)
  PROVE  Resolved(f) \subseteq Files \X Files
BY IndexerAssumption DEF Resolved, Parsable

\* The next statement starts where the last one has written all its rows.
LEMMA NextStatementKeeps ==
  ASSUME IndexerInv, NextStatement
  PROVE  IndexerInv'
<1> USE DEF NextStatement, Then
<1>1. UNCHANGED <<tree, graph, meta, backend, cut>>
  OBVIOUS
<1>2. (OwnedByFile /\ NoStaleEdges)'
  BY <1>1 DEF IndexerInv, OwnedByFile, Indexed, NoStaleEdges, graph
<1>3. (Planned /\ Purged /\ Whole /\ Versioned)'
  BY <1>1 DEF IndexerInv, TypeOK, Pass, Planned, Parsable, Purged,
     Indexed, Whole, Versioned, graph, meta
<1>4. CASE Then("purge", "delete", pass.changed)
  <2>1. TypeOK'
    BY <1>1, <1>4, IndexerAssumption DEF IndexerInv, TypeOK, Hashes, Pass,
       graph, meta
  <2>2. Rows'
    BY <1>1, <1>4, IndexerAssumption DEF IndexerInv, Rows, Resolved, graph
  <2>3. Stages'
    BY <1>1, <1>4, IndexerAssumption DEF IndexerInv, Stages, Reflected,
       Indexed, graph
  <2>4. EdgesWritten'
    BY <1>1, <1>4, IndexerAssumption DEF IndexerInv, EdgesWritten,
       Resolved, graph
  <2>5. QED
    BY <1>2, <1>3, <2>1, <2>2, <2>3, <2>4 DEF IndexerInv
<1>5. CASE Then("delete", "files", pass.parsed)
  <2>1. TypeOK'
    BY <1>1, <1>5, IndexerAssumption DEF IndexerInv, TypeOK, Hashes, Pass,
       graph, meta
  <2>2. Rows'
    BY <1>1, <1>5, IndexerAssumption DEF IndexerInv, Rows, Resolved, graph
  <2>3. Stages'
    BY <1>1, <1>5, IndexerAssumption DEF IndexerInv, Stages, Reflected,
       Indexed, TypeOK, Hashes, Pass, Rows, Resolved, Planned, Parsable,
       OwnedByFile, graph
  <2>4. EdgesWritten'
    BY <1>1, <1>5, IndexerAssumption DEF IndexerInv, EdgesWritten,
       Resolved, graph
  <2>5. QED
    BY <1>2, <1>3, <2>1, <2>2, <2>3, <2>4 DEF IndexerInv
<1>6. CASE Then("files", "modules", pass.parsed)
  <2>1. TypeOK'
    BY <1>1, <1>6, IndexerAssumption DEF IndexerInv, TypeOK, Hashes, Pass,
       graph, meta
  <2>2. Rows'
    BY <1>1, <1>6, IndexerAssumption DEF IndexerInv, Rows, Resolved, graph
  <2>3. Stages'
    BY <1>1, <1>6, IndexerAssumption DEF IndexerInv, Stages, Reflected,
       Indexed, graph
  <2>4. EdgesWritten'
    BY <1>1, <1>6, IndexerAssumption DEF IndexerInv, EdgesWritten,
       Resolved, graph
  <2>5. QED
    BY <1>2, <1>3, <2>1, <2>2, <2>3, <2>4 DEF IndexerInv
<1>7. CASE Then("modules", "members", pass.parsed)
  <2>1. TypeOK'
    BY <1>1, <1>7, IndexerAssumption DEF IndexerInv, TypeOK, Hashes, Pass,
       graph, meta
  <2>2. Rows'
    BY <1>1, <1>7, IndexerAssumption DEF IndexerInv, Rows, Resolved, graph
  <2>3. Stages'
    BY <1>1, <1>7, IndexerAssumption DEF IndexerInv, Stages, Reflected,
       Indexed, graph
  <2>4. EdgesWritten'
    BY <1>1, <1>7, IndexerAssumption DEF IndexerInv, EdgesWritten,
       Resolved, graph
  <2>5. QED
    BY <1>2, <1>3, <2>1, <2>2, <2>3, <2>4 DEF IndexerInv
<1>8. CASE Then("members", "edges", UNION {Resolved(f) : f \in pass.parsed})
  <2>1. TypeOK'
    <3>1. UNION {Resolved(f) : f \in pass.parsed} \in SUBSET (Files \cup (Files \X Files))
      BY ResolvedTyped DEF IndexerInv, TypeOK, Pass, Planned
    <3>2. QED
      BY <1>1, <1>8, <3>1 DEF IndexerInv, TypeOK, Hashes, Pass, graph, meta
  <2>2. Rows'
    BY <1>1, <1>8, IndexerAssumption DEF IndexerInv, Rows, Resolved, graph
  <2>3. Stages'
    BY <1>1, <1>8, IndexerAssumption DEF IndexerInv, Stages, Reflected,
       Indexed, graph
  <2>4. EdgesWritten'
    BY <1>1, <1>8, IndexerAssumption DEF IndexerInv, EdgesWritten,
       Resolved, graph
  <2>5. QED
    BY <1>2, <1>3, <2>1, <2>2, <2>3, <2>4 DEF IndexerInv
<1>9. CASE Then("edges", "embed", pass.parsed)
  <2>1. TypeOK'
    BY <1>1, <1>9, IndexerAssumption DEF IndexerInv, TypeOK, Hashes, Pass,
       graph, meta
  <2>2. Rows'
    BY <1>1, <1>9, IndexerAssumption DEF IndexerInv, Rows, Resolved, graph
  <2>3. Stages'
    BY <1>1, <1>9, IndexerAssumption DEF IndexerInv, Stages, Reflected,
       Indexed, graph
  <2>4. EdgesWritten'
    BY <1>1, <1>9, IndexerAssumption DEF IndexerInv, EdgesWritten,
       Resolved, TypeOK, Hashes, Pass, graph
  <2>5. QED
    BY <1>2, <1>3, <2>1, <2>2, <2>3, <2>4 DEF IndexerInv
<1>10. QED
  BY <1>4, <1>5, <1>6, <1>7, <1>8, <1>9

LEMMA RecordFingerprintKeeps ==
  ASSUME IndexerInv, RecordFingerprint
  PROVE  IndexerInv'
<1>1. TypeOK'
  BY IndexerAssumption DEF IndexerInv, TypeOK, Hashes, Pass,
     RecordFingerprint, Then, graph, meta
<1>2. (OwnedByFile /\ NoStaleEdges)'
  BY IndexerAssumption DEF IndexerInv, OwnedByFile, Indexed, NoStaleEdges,
     RecordFingerprint, Then, graph, meta
<1>3. (Planned /\ Rows /\ Purged)'
  BY IndexerAssumption DEF IndexerInv, Planned, Parsable, Rows, Resolved,
     Purged, Indexed, RecordFingerprint, Then, graph, meta
<1>4. (Stages /\ EdgesWritten)'
  BY IndexerAssumption DEF IndexerInv, Stages, Reflected, Indexed,
     EdgesWritten, Resolved, TypeOK, Hashes, Pass, RecordFingerprint,
     Then, graph, meta
<1>5. (Whole /\ Versioned)'
  BY IndexerAssumption DEF IndexerInv, Whole, Versioned,
     RecordFingerprint, Then, graph, meta
<1>6. QED
  BY <1>1, <1>2, <1>3, <1>4, <1>5 DEF IndexerInv

\* Every file written is whole now.
LEMMA UpdateIndexVersionKeeps ==
  ASSUME IndexerInv, UpdateIndexVersion
  PROVE  IndexerInv'
<1>1. TypeOK'
  BY IndexerAssumption DEF IndexerInv, TypeOK, Hashes, Pass,
     UpdateIndexVersion, Then, graph, meta
<1>2. (OwnedByFile /\ NoStaleEdges)'
  BY IndexerAssumption DEF IndexerInv, OwnedByFile, Indexed, NoStaleEdges,
     UpdateIndexVersion, Then, graph, meta
<1>3. (Planned /\ Rows /\ Purged)'
  BY IndexerAssumption DEF IndexerInv, Planned, Parsable, Rows, Resolved,
     Purged, Indexed, UpdateIndexVersion, Then, graph, meta
<1>4. (Stages /\ EdgesWritten)'
  BY IndexerAssumption DEF IndexerInv, Stages, Reflected, Indexed,
     EdgesWritten, Resolved, TypeOK, Hashes, Pass, UpdateIndexVersion,
     Then, graph, meta
<1>5. (Whole /\ Versioned)'
  BY IndexerAssumption DEF IndexerInv, Whole, Stages, Reflected, Indexed,
     Versioned, UpdateIndexVersion, Then, graph, meta
<1>6. QED
  BY <1>1, <1>2, <1>3, <1>4, <1>5 DEF IndexerInv

LEMMA ReturnKeeps ==
  ASSUME IndexerInv, Return
  PROVE  IndexerInv'
BY IndexerAssumption DEF IndexerInv, TypeOK, Hashes, Pass, OwnedByFile,
   Indexed, NoStaleEdges, Planned, Parsable, Rows, Resolved, Purged,
   Stages, Reflected, EdgesWritten, Whole, Versioned, Return, NoPass,
   graph, meta

\* What was being written counts as cut.
LEMMA CutShortKeeps ==
  ASSUME IndexerInv, CutShort
  PROVE  IndexerInv'
<1>1. TypeOK'
  BY IndexerAssumption DEF IndexerInv, TypeOK, Hashes, Pass, CutShort,
     NoPass, graph, meta
<1>2. (OwnedByFile /\ NoStaleEdges)'
  BY IndexerAssumption DEF IndexerInv, OwnedByFile, Indexed, NoStaleEdges,
     CutShort, NoPass, graph, meta
<1>3. (Planned /\ Rows /\ Purged)'
  BY IndexerAssumption DEF IndexerInv, Planned, Parsable, Rows, Resolved,
     Purged, Indexed, CutShort, NoPass, graph, meta
<1>4. (Stages /\ EdgesWritten)'
  BY IndexerAssumption DEF IndexerInv, Stages, Reflected, Indexed,
     EdgesWritten, Resolved, CutShort, NoPass, graph, meta
<1>5. (Whole /\ Versioned)'
  BY IndexerAssumption DEF IndexerInv, Whole, Versioned, CutShort, NoPass,
     graph, meta
<1>6. QED
  BY <1>1, <1>2, <1>3, <1>4, <1>5 DEF IndexerInv

-----------------------------------------------------------------------------
LEMMA InitIndexerInv == Init => IndexerInv
BY DEF Init, NoPass, NoFiles, IndexerInv, TypeOK, Hashes, Pass, OwnedByFile, Indexed,
       NoStaleEdges, Planned, Rows, Purged, Stages, EdgesWritten, Whole, Versioned

LEMMA StutterKeeps == IndexerInv /\ UNCHANGED vars => IndexerInv'
BY DEF vars, graph, meta, IndexerInv, TypeOK, Hashes, Pass, OwnedByFile, Indexed,
       NoStaleEdges, Planned, Parsable, Rows, Resolved, Purged, Stages, Reflected,
       EdgesWritten, Whole, Versioned

LEMMA NextKeeps == IndexerInv /\ Next => IndexerInv'
BY EditKeeps, SwitchBackendKeeps, IndexRepositoryKeeps, IndexFileKeeps, PurgeKeeps,
   DeleteKeeps, UpsertFileKeeps, UpsertModuleKeeps, UpsertMembersKeeps, UpsertEdgeKeeps,
   UpsertEmbeddingKeeps, EmbeddingFailsKeeps, NextStatementKeeps, RecordFingerprintKeeps,
   UpdateIndexVersionKeeps, ReturnKeeps, CutShortKeeps
   DEF Next

(* The invariant holds after every statement of every pass, and after a pass *)
(* was cut short at any of them.                                            *)
THEOREM IndexerInvariant == Spec => []IndexerInv
BY InitIndexerInv, NextKeeps, StutterKeeps, PTL DEF Spec

(* Type correctness: only what parses is ever written.                      *)
THEOREM IndexerTyped == Spec => []TypeOK
BY IndexerInvariant, PTL DEF IndexerInv

(* A pass may be cut short anywhere: nothing in the graph is ever without   *)
(* the :File node by which the next pass finds it.                          *)
THEOREM IndexerOwnedByFile == Spec => []OwnedByFile
BY IndexerInvariant, PTL DEF IndexerInv

(* No edge outlives the version of the file it was resolved from.           *)
THEOREM IndexerNoStaleEdges == Spec => []NoStaleEdges
BY IndexerInvariant, PTL DEF IndexerInv

(* A completed full pass has repaired everything, for any number of files   *)
(* and versions and whatever passes were cut short before it.               *)
THEOREM FullPassRepairs == Spec => []FullPassReflectsTree
<1>1. IndexerInv => FullPassReflectsTree
  <2> SUFFICES ASSUME IndexerInv, Completed({"full"}), NEW f \in Files
               PROVE  /\ tree[f] = Absent => fileHash[f] = Absent /\ members[f] = Absent
                      /\ Parsable(f) => /\ Reflected(f)
                                        /\ \A g \in Refers[f][tree[f]] :
                                              members[g] # Absent => <<f, g>> \in edges
    BY DEF FullPassReflectsTree
  <2>1. tree[f] = Absent => fileHash[f] = Absent /\ members[f] = Absent
    BY DEF IndexerInv, Completed, OwnedByFile, Indexed, Purged
  <2>2. Parsable(f) => f \in pass.parsed
    BY DEF IndexerInv, Completed, Planned
  <2>3. Parsable(f) => Reflected(f)
    BY <2>2 DEF IndexerInv, Completed, Stages
  <2>4. ASSUME Parsable(f), NEW g \in Refers[f][tree[f]], members[g] # Absent
        PROVE  <<f, g>> \in edges
    <3>1. g \in Files
      BY <2>4, IndexerAssumption DEF Parsable
    <3>2. QED
      BY <2>2, <2>4, <3>1 DEF IndexerInv, Completed, EdgesWritten, Resolved
  <2>5. QED
    BY <2>1, <2>3, <2>4
<1>2. QED
  BY <1>1, IndexerInvariant, PTL

(* A completed incremental pass is as good, for files never cut short.      *)
THEOREM IncrementalPassKeepsUp == Spec => []IncrementalReflectsTree
<1>1. IndexerInv => IncrementalReflectsTree
  <2> SUFFICES ASSUME IndexerInv, Completed({"incremental"})
               PROVE  /\ indexVersion = fileHash
                      /\ \A f \in Files \ cut :
                            /\ tree[f] = Absent => fileHash[f] = Absent /\ members[f] = Absent
                            /\ Parsable(f) => Reflected(f)
    BY DEF IncrementalReflectsTree
  <2>1. indexVersion = fileHash
    BY DEF IndexerInv, Completed, Versioned
  <2>2. ASSUME NEW f \in Files, tree[f] = Absent
        PROVE  fileHash[f] = Absent /\ members[f] = Absent
    BY <2>2 DEF IndexerInv, Completed, OwnedByFile, Indexed, Purged
  <2>3. ASSUME NEW f \in Files \ cut, Parsable(f)
        PROVE  Reflected(f)
    <3>1. f \in pass.parsed => Reflected(f)
      BY DEF IndexerInv, Completed, Stages
    <3>2. f \notin pass.parsed => Reflected(f)
      BY <2>3 DEF IndexerInv, Completed, Planned, Whole, Reflected
    <3>3. QED
      BY <3>1, <3>2
  <2>4. QED
    BY <2>1, <2>2, <2>3
<1>2. QED
  BY <1>1, IndexerInvariant, PTL
=============================================================================
