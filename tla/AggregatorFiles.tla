-------------------------- MODULE AggregatorFiles ---------------------------
(***************************************************************************)
(* The files of the state aggregator (db/state).  The latest values of a   *)
(* domain live in a database table, by step, until the step is complete;   *)
(* a background job then collates the step into an immutable file, another *)
(* merges small files into larger ones and deletes the small ones, and the *)
(* writing transaction prunes the rows that files already hold.  Readers   *)
(* combine a database snapshot with the files that were visible when they  *)
(* opened, and keep those files alive by counting references.              *)
(*                                                                         *)
(* Two domains stand for all: accounts, which waits for its dependent, and *)
(* commitment, the dependent.  Histories and inverted indices follow the   *)
(* same life cycle and are left out.  An unwind is left out.               *)
(***************************************************************************)
EXTENDS Integers, FiniteSets, FiniteSetsExt

CONSTANTS
  MaxStep,     \* the last step the writer reaches
  Readers,     \* read-only transactions that may be open at a time
  MaxFaults,   \* failing builds, failing merges and deaths of the process
  Preempts     \* others may run between the two loads of a closing transaction

ASSUME AggregatorAssumption ==
  /\ MaxStep \in Nat /\ MaxFaults \in Nat
  /\ Preempts \in BOOLEAN
  /\ IsFiniteSet(Readers)
  /\ Readers \cap {"writer", "merge", "clean"} = {}

Acc == "accounts"
Com == "commitment"
Domains == {Acc, Com}
Steps == 0..MaxStep
File == {f \in [d : Domains, from : Steps, to : Steps] : f.from < f.to}
NoFile == [d |-> Acc, from |-> 0, to |-> 0]

\* Everything that opens files: readers, the read-write transaction, the merge
\* and the cleaning that follows it.
Holders == Readers \cup {"writer", "merge", "clean"}

VARIABLES
  db,         \* the committed rows: [Domains -> SUBSET Steps]
  disk,       \* files in the snapshot directory
  torn,       \* files that lack values of their range
  dirty,      \* Domain.dirtyFiles of both domains
  visible,    \* Domain._visible of both domains
  canDelete,  \* files marked FilesItem.canDelete
  held,       \* the files a holder counts in FilesItem.refcount
  last,       \* files whose count this holder brought to 0 and will look at
  tx,         \* transactions: [at, rows]; a reader's rows until its files are
              \* open, for its view is settled then
  builder,    \* BuildFilesInBackground: [at, step, upto, wrote]
  merger,     \* MergeLoop: [at, merged, wrote, todo, mark]
  spawned,    \* a goroutine is about to enter MergeLoop
  faults      \* faults so far

vars == <<db, disk, torn, dirty, visible, canDelete, held, last, tx,
          builder, merger, spawned, faults>>

------------------------------------------------------------------------------
\* Ranges and views.

Of(S, d) == {f \in S : f.d = d}

\* visibleFiles.EndTxNum, in steps.
End(S, d) == IF Of(S, d) = {} THEN 0 ELSE Max({f.to : f \in Of(S, d)})

IsProperSubsetOf(f, g) ==
  /\ f.d = g.d
  /\ g.from <= f.from /\ f.to <= g.to
  /\ f # g

\* filesItemLess, after the order of the domains.
Before(f, g) ==
  \/ f.d = Acc /\ g.d = Com
  \/ f.d = g.d /\ (f.to < g.to \/ (f.to = g.to /\ f.from >= g.from))

First(S) == CHOOSE f \in S : \A g \in S : Before(f, g)

SameRange(f, d) == [f EXCEPT !.d = d]

\* The integrity checker between accounts and commitment: is the dependent file
\* of the same range there?
CheckDependentPresent(f, S) == SameRange(f, Com) \in S

\* Mutant: accounts files do not wait for commitment.
CanBeVisibleAlone(S) == {f \in S : \E g \in Of(S, Acc) : f.to <= g.to}

\* calcVisibleFiles: files up to the end of the accounts (storage, code) files,
\* accounts files only with their commitment file, and no file inside another.
CanBeVisible(S) ==
  {f \in S : /\ \E g \in Of(S, Acc) : f.to <= g.to
             /\ f.d = Acc => CheckDependentPresent(f, S)}

CalcVisibleFiles(S) ==
  LET can == CanBeVisible(S)
  IN {f \in can : \A g \in can : ~IsProperSubsetOf(f, g)}

\* TxNumsInFiles: the end of the domain that is furthest behind.
Minimax == Min({End(visible, d) : d \in Domains})

\* lastIdInDB: rows of this step are committed.
LastIdInDB == Max({0} \cup UNION {db[d] : d \in Domains})

\* What getLatest can find with these rows and files: rows of steps that are in
\* the files are not used.
Seen(rows, S, d) ==
  LET end == End(S, d)
  IN {s \in rows[d] : s >= end} \cup
     UNION {f.from..(f.to - 1) : f \in Of(S, d) \ torn}

RefCount(f) == Cardinality({h \in Holders : f \in held[h]})

------------------------------------------------------------------------------
\* Ranges to merge.

\* endStep & -endStep: the largest divisor of n that is a power of two, that is,
\* has no odd divisor but 1.
RightmostBit(n) == Max({b \in 1..n : n % b = 0 /\ \A q \in 2..b : b % q = 0 => q % 2 = 0})

NoRange == [from |-> 0, to |-> 0]

\* DomainRoTx.findMergeRange: the range that starts earliest, and of those the
\* one that ends first.
DomainMergeRange(S, d, maxEnd) ==
  LET Start(f) == f.to - RightmostBit(f.to)
      can == {f \in Of(S, d) : f.to <= maxEnd /\ Start(f) < f.from}
      from == Min({Start(f) : f \in can})
  IN IF can = {} THEN NoRange
     ELSE [from |-> from, to |-> Min({f.to : f \in {g \in can : Start(g) = from}})]

\* visibleFiles.LatestMergedRange: the last file longer than two steps.
LatestMergedRange(S, d) ==
  LET long == {f \in Of(S, d) : f.to - f.from > 2}
  IN IF long = {} THEN NoRange
     ELSE LET f == CHOOSE g \in long : g.to = Max({h.to : h \in long})
          IN [from |-> f.from, to |-> f.to]

\* AggregatorRoTx.findMergeRange: domains that differ in merged files go no
\* further, and accounts wait where only commitment has to catch up.
FindMergeRange(S) ==
  LET latest == {LatestMergedRange(S, d) : d \in Domains}
      maxEnd == IF Cardinality(latest) > 1
                THEN Min({Minimax, Max({r.to : r \in latest})}) ELSE Minimax
      c == DomainMergeRange(S, Com, maxEnd)
      a == DomainMergeRange(S, Acc, maxEnd)
      behind == c \notin {NoRange, a} /\ (a = NoRange \/ c.to < a.from)
      exists == [d |-> Acc, from |-> c.from, to |-> c.to] \in dirty
  IN [accounts   |-> IF behind THEN NoRange ELSE a,
      commitment |-> IF behind /\ ~exists THEN NoRange ELSE c]

\* The files a merge step will write.
FilesToMerge(S) ==
  LET r == FindMergeRange(S)
  IN {[d |-> d, from |-> r[d].from, to |-> r[d].to] :
        d \in {e \in Domains : r[e] # NoRange}}

\* DomainRoTx.garbage: files that a merge left over.
HasCoverVisibleFile(f, S) == \E g \in S : IsProperSubsetOf(f, g)

Garbage(merged, S) ==
  {f \in dirty :
     LET M == Of(merged, f.d)
     IN \/ M = {} /\ HasCoverVisibleFile(f, S)
        \/ \E m \in M :
             \/ f.to <= m.from /\ HasCoverVisibleFile(f, S)
             \/ IsProperSubsetOf(f, m) /\ (f.d = Acc => ~CheckDependentPresent(f, dirty))}

------------------------------------------------------------------------------
Idle == [at |-> "none", rows |-> [d \in Domains |-> {}]]
NoBuild == [at |-> "idle", step |-> 0, upto |-> 0, wrote |-> {}]
NoMerge == [at |-> "idle", merged |-> {}, wrote |-> {}, todo |-> {}, mark |-> NoFile]

\* A first start: an empty snapshot directory, and rows of step 0.
Init ==
  /\ db = [d \in Domains |-> {0}]
  /\ disk = {}
  /\ torn = {}
  /\ dirty = {} /\ visible = {} /\ canDelete = {}
  /\ held = [h \in Holders |-> {}]
  /\ last = [h \in Holders |-> {}]
  /\ tx = [t \in Readers \cup {"writer"} |-> Idle]
  /\ builder = NoBuild /\ merger = NoMerge /\ spawned = FALSE
  /\ faults = 0

files == <<disk, torn, dirty, visible, canDelete>>
refs == <<held, last>>
jobs == <<builder, merger, spawned, faults>>

\* Aggregator.BeginFilesRo
BeginFilesRo(h) == held' = [held EXCEPT ![h] = visible]

\* Mutant: the count is decremented and not looked at.
CloseFilesUnseen(h) ==
  /\ held' = [held EXCEPT ![h] = {}]
  /\ UNCHANGED last

\* AggregatorRoTx.Close: the counts go down, and the files whose count this
\* brought to 0 are then looked at.
CloseFiles(h) ==
  /\ held' = [held EXCEPT ![h] = {}]
  /\ last' = [last EXCEPT ![h] = {f \in held[h] : RefCount(f) = 1}]

\* A file nobody counts any more is removed if it is marked by now.
RemoveLast(h) ==
  /\ last[h] # {}
  /\ disk' = disk \ (last[h] \cap canDelete)
  /\ last' = [last EXCEPT ![h] = {}]
  /\ UNCHANGED <<db, torn, dirty, visible, canDelete, held, tx, jobs>>

------------------------------------------------------------------------------
\* BeginTemporalRo: the database snapshot first, then the files.
BeginRo(r) ==
  /\ tx[r].at = "none" /\ last[r] = {}
  /\ tx' = [tx EXCEPT ![r] = [at |-> "begun", rows |-> db]]
  /\ UNCHANGED <<db, files, refs, jobs>>

OpenFiles(r) ==
  /\ tx[r].at = "begun"
  /\ tx' = [tx EXCEPT ![r] = [Idle EXCEPT !.at = "open"]]
  /\ BeginFilesRo(r)
  /\ UNCHANGED <<db, files, last, jobs>>

Rollback(r) ==
  /\ tx[r].at = "open"
  /\ tx' = [tx EXCEPT ![r] = Idle]
  /\ CloseFiles(r)
  /\ UNCHANGED <<db, files, jobs>>

------------------------------------------------------------------------------
\* The one read-write transaction: it adds rows of the next step, prunes, and
\* commits or rolls back.
BeginRw ==
  /\ tx["writer"].at = "none" /\ last["writer"] = {}
  /\ tx' = [tx EXCEPT !["writer"] = [at |-> "open", rows |-> db]]
  /\ BeginFilesRo("writer")
  /\ UNCHANGED <<db, files, last, jobs>>

\* At most one step in a transaction.
WriteStep ==
  /\ tx["writer"].at = "open"
  /\ LastIdInDB < MaxStep
  /\ tx' = [tx EXCEPT !["writer"].rows = [d \in Domains |-> @[d] \cup {LastIdInDB + 1}]]
  /\ UNCHANGED <<db, files, refs, jobs>>

\* Mutant: the files of this transaction do not limit it.
PruneLimitOfAll(d) == Minimax - 1

\* DomainRoTx.prune: rows up to the last step in files, of all transactions and
\* of this one.  With no file of its own the second bound is step 0.
PruneLimit(d) ==
  LET own == End(held["writer"], d)
  IN Min({Minimax - 1, IF own > 0 THEN own - 1 ELSE 0})

CanPrune == Minimax > 0

\* The limit or the timeout may stop it anywhere: a step some of whose rows are
\* gone counts as gone.
Prune ==
  /\ tx["writer"].at = "open" /\ CanPrune
  /\ tx' = [tx EXCEPT !["writer"].rows =
              [d \in Domains |-> @[d] \ 0..PruneLimit(d)]]
  /\ UNCHANGED <<db, files, refs, jobs>>

\* RwTx.Commit closes the files and then commits: a process that dies between
\* the two has rolled back.
EndRw(commits) ==
  /\ tx["writer"].at = "open"
  /\ db' = IF commits THEN tx["writer"].rows ELSE db
  /\ tx' = [tx EXCEPT !["writer"] = Idle]
  /\ CloseFiles("writer")
  /\ UNCHANGED <<files, jobs>>

------------------------------------------------------------------------------
\* BuildFilesInBackground, with the flag buildingFiles.
BuildFilesInBackground ==
  /\ builder.at = "idle"
  /\ LastIdInDB > Minimax
  /\ builder' = [at |-> "build", step |-> Minimax, upto |-> LastIdInDB, wrote |-> {}]
  /\ UNCHANGED <<db, files, refs, tx, merger, spawned, faults>>

Building == builder.at = "build" /\ builder.step < builder.upto
StepFile(d) == [d |-> d, from |-> builder.step, to |-> builder.step + 1]

\* collate, in a read transaction of its own, and buildFiles of one domain
BuildDomain(d) ==
  /\ Building /\ d \notin builder.wrote
  /\ builder.step >= End(visible, d)
  /\ torn' = IF builder.step \in db[d] THEN torn \ {StepFile(d)} ELSE torn \cup {StepFile(d)}
  /\ disk' = disk \cup {StepFile(d)}
  /\ builder' = [builder EXCEPT !.wrote = @ \cup {d}]
  /\ UNCHANGED <<db, dirty, visible, canDelete, refs, tx, merger, spawned, faults>>

\* The dirtyFilesLock is held while files are being deleted.
Locked == merger.at \in {"mark", "delete"}

IntegrateDirtyFiles ==
  LET all == dirty \cup {StepFile(d) : d \in Domains}
  IN /\ Building /\ builder.wrote = Domains /\ ~Locked
     /\ dirty' = all
     /\ visible' = CalcVisibleFiles(all)
     /\ builder' = [builder EXCEPT !.step = @ + 1, !.wrote = {}]
     /\ UNCHANGED <<db, disk, torn, canDelete, refs, tx, merger, spawned, faults>>

\* CleanupOnError closes the files and leaves them in the directory.
BuildFails ==
  /\ Building /\ faults < MaxFaults
  /\ builder' = [builder EXCEPT !.upto = builder.step, !.wrote = {}]
  /\ faults' = faults + 1
  /\ UNCHANGED <<db, files, refs, tx, merger, spawned>>

BuildEnds ==
  /\ builder.at = "build" /\ ~Building
  /\ builder' = NoBuild
  /\ spawned' = TRUE
  /\ UNCHANGED <<db, files, refs, tx, merger, faults>>

------------------------------------------------------------------------------
\* MergeLoop, with the flag mergingFiles: a second goroutine returns at once.
MergeLoop ==
  /\ spawned
  /\ spawned' = FALSE
  /\ merger' = IF merger.at = "idle" /\ last["merge"] = {} THEN [merger EXCEPT !.at = "loop"] ELSE merger
  /\ UNCHANGED <<db, files, refs, tx, builder, faults>>

MergeLoopStep ==
  LET merged == FilesToMerge(visible)
  IN /\ merger.at = "loop" /\ last["merge"] = {}
     /\ BeginFilesRo("merge")
     /\ merger' = [NoMerge EXCEPT !.at = IF merged = {} THEN "clean" ELSE "merge",
                                  !.merged = merged]
     /\ UNCHANGED <<db, files, last, tx, builder, spawned, faults>>

\* Mutant: the last of the files is left out.
MergeFilesShort ==
  LET f == First(merger.merged \ merger.wrote)
      parts == {g \in held["merge"] : IsProperSubsetOf(g, f) /\ g.to < f.to}
  IN /\ merger.at = "merge" /\ merger.wrote # merger.merged
     /\ disk' = disk \cup {f}
     /\ torn' = IF f.from..(f.to - 1) = UNION {g.from..(g.to - 1) : g \in parts \ torn}
                THEN torn \ {f} ELSE torn \cup {f}
     /\ merger' = [merger EXCEPT !.wrote = @ \cup {f}]
     /\ UNCHANGED <<db, dirty, visible, canDelete, refs, tx, builder, spawned, faults>>

\* mergeFiles: commitment waits until accounts are merged.
MergeFiles ==
  LET f == First(merger.merged \ merger.wrote)
      parts == {g \in held["merge"] : IsProperSubsetOf(g, f)}
  IN /\ merger.at = "merge" /\ merger.wrote # merger.merged
     /\ disk' = disk \cup {f}
     /\ torn' = IF f.from..(f.to - 1) = UNION {g.from..(g.to - 1) : g \in parts \ torn}
                THEN torn \ {f} ELSE torn \cup {f}
     /\ merger' = [merger EXCEPT !.wrote = @ \cup {f}]
     /\ UNCHANGED <<db, dirty, visible, canDelete, refs, tx, builder, spawned, faults>>

\* The loop ends; what is written stays in the directory.
MergeFails ==
  /\ merger.at = "merge" /\ merger.wrote # merger.merged /\ faults < MaxFaults
  /\ merger' = NoMerge
  /\ CloseFiles("merge")
  /\ faults' = faults + 1
  /\ UNCHANGED <<db, files, tx, builder, spawned>>

IntegrateMergedDirtyFiles ==
  LET all == dirty \cup merger.merged
  IN /\ merger.at = "merge" /\ merger.wrote = merger.merged
     /\ dirty' = all
     /\ visible' = CalcVisibleFiles(all)
     /\ merger' = [merger EXCEPT !.at = "clean", !.wrote = {}]
     /\ UNCHANGED <<db, disk, torn, canDelete, refs, tx, builder, spawned, faults>>

\* cleanAfterMerge: its own view of the files first, then the lock.
CleanAfterMerge ==
  /\ merger.at = "clean"
  /\ BeginFilesRo("clean")
  /\ merger' = [merger EXCEPT !.at = "lock"]
  /\ UNCHANGED <<db, files, last, tx, builder, spawned, faults>>

LockDirtyFiles ==
  /\ merger.at = "lock"
  /\ merger' = [merger EXCEPT !.at = "mark", !.todo = Garbage(merger.merged, held["clean"])]
  /\ UNCHANGED <<db, files, refs, tx, builder, spawned, faults>>

\* deleteMergeFile: out of dirtyFiles and marked, and only then the count is read
MarkFile ==
  /\ merger.at = "mark" /\ merger.todo # {}
  /\ LET f == First(merger.todo)
     IN /\ dirty' = dirty \ {f}
        /\ canDelete' = canDelete \cup {f}
        /\ merger' = [merger EXCEPT !.at = "delete", !.todo = @ \ {f}, !.mark = f]
  /\ UNCHANGED <<db, disk, torn, visible, refs, tx, builder, spawned, faults>>

\* Mutant: the count is not read.
DeleteFileAtOnce ==
  /\ merger.at = "delete"
  /\ disk' = disk \ {merger.mark}
  /\ merger' = [merger EXCEPT !.at = "mark", !.mark = NoFile]
  /\ UNCHANGED <<db, torn, dirty, visible, canDelete, refs, tx, builder, spawned, faults>>

DeleteFile ==
  /\ merger.at = "delete"
  /\ disk' = IF RefCount(merger.mark) = 0 THEN disk \ {merger.mark} ELSE disk
  /\ merger' = [merger EXCEPT !.at = "mark", !.mark = NoFile]
  /\ UNCHANGED <<db, torn, dirty, visible, canDelete, refs, tx, builder, spawned, faults>>

\* The lock is released, then the view of cleanAfterMerge is closed, then the
\* one of mergeLoopStep.
Cleaned ==
  /\ merger.at = "mark" /\ merger.todo = {}
  /\ merger' = [merger EXCEPT !.at = "close"]
  /\ CloseFiles("clean")
  /\ UNCHANGED <<db, files, tx, builder, spawned, faults>>

\* Another step when this one has merged something.
MergeStepEnds ==
  /\ merger.at = "close" /\ last["clean"] = {}
  /\ merger' = [NoMerge EXCEPT !.at = IF merger.merged = {} THEN "idle" ELSE "loop"]
  /\ CloseFiles("merge")
  /\ UNCHANGED <<db, files, tx, builder, spawned, faults>>

------------------------------------------------------------------------------
\* The process dies; the next one opens what is in the directory (OpenFolder).
CrashAndOpenFolder ==
  /\ faults < MaxFaults
  /\ faults' = faults + 1
  /\ dirty' = disk
  /\ visible' = CalcVisibleFiles(disk)
  /\ canDelete' = {}
  /\ held' = [h \in Holders |-> {}]
  /\ last' = [h \in Holders |-> {}]
  /\ tx' = [t \in Readers \cup {"writer"} |-> Idle]
  /\ builder' = NoBuild /\ merger' = NoMerge /\ spawned' = FALSE
  /\ UNCHANGED <<db, disk, torn>>

------------------------------------------------------------------------------
Reads(r) == BeginRo(r) \/ OpenFiles(r) \/ Rollback(r)
Writes == BeginRw \/ WriteStep \/ Prune \/ EndRw(TRUE) \/ EndRw(FALSE)
Builds == (\E d \in Domains : BuildDomain(d)) \/ IntegrateDirtyFiles \/ BuildFails \/ BuildEnds
Merges ==
  \/ MergeLoop \/ MergeLoopStep \/ MergeFiles \/ MergeFails
  \/ IntegrateMergedDirtyFiles \/ CleanAfterMerge \/ LockDirtyFiles \/ MarkFile
  \/ DeleteFile \/ Cleaned \/ MergeStepEnds

NoneCloses == \A h \in Holders : last[h] = {}

Next ==
  \/ \E h \in Holders : RemoveLast(h)
  \/ CrashAndOpenFolder
  \/ /\ Preempts \/ NoneCloses
     /\ \/ \E r \in Readers : Reads(r)
        \/ Writes
        \/ BuildFilesInBackground
        \/ Builds
        \/ Merges

Spec == Init /\ [][Next]_vars

------------------------------------------------------------------------------
\* Properties

TxStates == [at : {"none", "begun", "open"}, rows : [Domains -> SUBSET Steps]]
BuilderStates ==
  [at : {"idle", "build"}, step : Steps, upto : Steps, wrote : SUBSET Domains]
MergerStates ==
  [at : {"idle", "loop", "merge", "clean", "lock", "mark", "delete", "close"},
   merged : SUBSET File, wrote : SUBSET File, todo : SUBSET File,
   mark : File \cup {NoFile}]

TypeOK ==
  /\ db \in [Domains -> SUBSET Steps]
  /\ disk \subseteq File /\ dirty \subseteq File /\ visible \subseteq File
  /\ canDelete \subseteq File
  /\ torn \subseteq File
  /\ held \in [Holders -> SUBSET File]
  /\ last \in [Holders -> SUBSET File]
  /\ tx \in [Readers \cup {"writer"} -> TxStates]
  /\ builder \in BuilderStates
  /\ merger \in MergerStates
  /\ spawned \in BOOLEAN
  /\ faults \in 0..MaxFaults

Top(rows) == Max({0} \cup UNION {rows[d] : d \in Domains})

Complete(rows, S) == \A d \in Domains : 0..Top(rows) \subseteq Seen(rows, S, d)

\* A transaction finds every step, in its snapshot or in its files: whatever was
\* built, merged and pruned between the opening of its snapshot and of its files.
\* The writer prunes under its own files: it keeps its view, if it had any files
\* (with none, canPruneDomainTables lets step 0 go).
SeesAll ==
  [][ /\ \A r \in Readers : tx[r].at = "begun" /\ tx'[r].at = "open" =>
           Complete(tx[r].rows, held'[r])
      /\ tx'["writer"] # tx["writer"] /\ held'["writer"] # {} =>
           Complete(tx'["writer"].rows, held'["writer"]) ]_vars

\* Files in use are not removed ("last reader of this file - will remove it
\* inside `aggRoTx.Close()`").
HeldFilesStay == \A h \in Holders : held[h] \subseteq disk

\* A process that died here finds every step when it starts again.
CrashSafe == Complete(db, CalcVisibleFiles(disk))

\* "hard alignment": whoever opens files has accounts and commitment files of
\* the same ranges, whatever a failed build or merge or a crash left behind.
Aligned ==
  \A h \in Holders : \A f \in held[h], d \in Domains : SameRange(f, d) \in held[h]

\* A marked file is not forgotten: somebody counts it, or is about to look.
NoLeak ==
  \A f \in canDelete \cap disk :
    RefCount(f) > 0 \/ merger.mark = f \/ \E h \in Holders : f \in last[h]
=============================================================================
