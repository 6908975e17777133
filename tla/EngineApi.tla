------------------------------ MODULE EngineApi ------------------------------
(***************************************************************************)
(* The engine API server (execution/engineapi/engine_server.go) with its   *)
(* block downloader (engine_block_downloader/) and the part of             *)
(* headerdownload that the downloader uses: what a consensus client is     *)
(* answered while missing blocks are fetched backwards from the network.   *)
(*                                                                         *)
(*   handlers    newPayload and forkchoiceUpdated: the quick answer before *)
(*               s.lock, the rest under it                                 *)
(*   downloader  the goroutine of StartDownloading, one at a time          *)
(*   PoS loop    StartPoSDownloader: requests headers, gives up            *)
(*   sentry      ProcessHeadersPOS on packets, which may be late, come     *)
(*               twice, be lost, hold some of the headers or not be asked  *)
(*               for                                                       *)
(*                                                                         *)
(* The blocks are a chain 1..N on genesis 0, so a number stands for a      *)
(* hash.  Some cannot be executed and some are too large to be inserted.   *)
(* Of the execution module (module ExecutionModule has its inside) there   *)
(* is the semaphore, the blocks it has and the answers it gives.  Left out *)
(* are the checks of newPayload that only look at the payload, the payload *)
(* attributes, and the download of bodies, which repeats its requests      *)
(* until they have come.                                                   *)
(***************************************************************************)
EXTENDS Integers, FiniteSetsExt

CONSTANTS
  N,            \* length of the chain
  Chains,       \* the chains that occur: a subset of [1..N -> Kinds]
  Handlers,     \* concurrent calls of the consensus client
  LookBehind,   \* maxBlocksLookBehind, and the 32 of HandleNewPayload
  MaxTimeouts,  \* requests to peers before the PoS loop gives up (3)
  Stops,        \* the node may be stopped
  SetupRaces    \* packets may arrive while a download is being scheduled

Kinds == {"good", "bad", "oversize"}
Blocks == 1..N

ASSUME EngineAssumption ==
  /\ N \in Nat \ {0}
  /\ Chains \subseteq [Blocks -> Kinds]
  /\ LookBehind \in Nat \ {0}
  /\ MaxTimeouts \in Nat \ {0}
  /\ Stops \in BOOLEAN
  /\ SetupRaces \in BOOLEAN

VARIABLES
  kind,              \* [Blocks -> Kinds], fixed
  known,             \* blocks whose header and body are in the database
  td,                \* blocks whose total difficulty is in the database
  head,              \* the canonical head
  semaphore,         \* of the execution module: its holder, or Free
  pending,           \* the head a fork choice in the background will set
  stopping,          \* the contexts of the node are cancelled
  call,              \* [Handlers -> Call]
  lock,              \* EngineServer.lock: a handler, or Free
  status,            \* EngineBlockDownloader.status
  download,          \* [at, hash, tip]: the goroutine and its request
  posStatus,         \* HeaderDownload.posStatus
  posAnchor,         \* [hash, timeouts], or NoAnchor
  headersCollector,  \* [open, headers]
  badPoSHeaders      \* [Blocks -> last valid ancestor, or NotBad]

dbVars == <<known, td, head>>
execVars == <<dbVars, semaphore, pending>>
hdVars == <<posStatus, posAnchor, headersCollector>>
downloaderVars == <<status, download>>
vars == <<kind, execVars, stopping, call, lock, downloaderVars, hdVars, badPoSHeaders>>

Free == "free"
Downloader == "downloader"
Background == "background"

\* Only a handler that holds the lock or the semaphore is its holder.
ASSUME NamesAssumption == Handlers \cap {Free, Downloader, Background} = {}

NoBlock == -1
NotBad == -1
NoAnchor == [hash |-> NoBlock, timeouts |-> 0]
NoCollector == [open |-> FALSE, headers |-> {}]

Methods == {"newPayload", "forkchoiceUpdated"}
NoMethod == "none"
Places == {"answered", "downloading", "ready", "lock", "wait",
           "verify", "insert", "accept", "validate", "update"}

\* A call: its method and block, where it is, whether the verification is
\* the one after a download, and its answer with the latest valid hash.  Of
\* an answered call the method is forgotten.
Call == [method : Methods \cup {NoMethod}, block : Blocks, at : Places, downloaded : BOOLEAN,
         answer : {"none", "VALID", "INVALID", "SYNCING", "ACCEPTED", "ERROR"},
         valid : Blocks \cup {0, NoBlock}]

TypeOK ==
  /\ kind \in Chains
  /\ known \subseteq td /\ td \subseteq Blocks /\ head \in 0..N
  /\ semaphore \in Handlers \cup {Free, Downloader, Background}
  /\ pending \in Blocks \cup {NoBlock}
  /\ stopping \in BOOLEAN
  /\ call \in [Handlers -> Call]
  /\ lock \in Handlers \cup {Free}
  /\ status \in {"Idle", "Syncing", "Synced"}
  /\ download \in [at : {"off", "schedule", "collector", "start", "wait", "load", "tip",
                         "verify", "validate"},
                   hash : Blocks \cup {NoBlock}, tip : Blocks \cup {NoBlock}]
  /\ posStatus \in {"Idle", "Syncing", "Synced"}
  /\ posAnchor \in [hash : Blocks \cup {NoBlock}, timeouts : 0..MaxTimeouts]
  /\ headersCollector \in [open : BOOLEAN, headers : SUBSET Blocks]
  /\ badPoSHeaders \in [Blocks -> Blocks \cup {0, NotBad}]

Init ==
  /\ kind \in Chains
  /\ known = {} /\ td = {} /\ head = 0
  /\ semaphore = Free /\ pending = NoBlock /\ stopping = FALSE
  /\ call = [h \in Handlers |-> [method |-> NoMethod, block |-> 1, at |-> "answered",
                                 downloaded |-> FALSE, answer |-> "none", valid |-> NoBlock]]
  /\ lock = Free
  /\ status = "Idle" /\ download = [at |-> "off", hash |-> NoBlock, tip |-> NoBlock]
  /\ posStatus = "Idle" /\ posAnchor = NoAnchor /\ headersCollector = NoCollector
  /\ badPoSHeaders = [b \in Blocks |-> NotBad]
-----------------------------------------------------------------------------
(***************************************************************************)
(* The execution module.                                                   *)
(***************************************************************************)
Has(b) == b = 0 \/ b \in known
HasTd(b) == b = 0 \/ b \in td
IsCanonical(b) == b <= head

\* A block is invalid if it, or a block below it, is not good.
Defective(b) == {a \in 1..b : kind[a] # "good"}
Invalid(b) == Defective(b) # {}
FirstBad(b) == Min(Defective(b))

\* Headers that are missing between b and the canonical chain.
Gap(b) == {a \in (head + 1)..(b - 1) : a \notin known}
FarAway(b) == b - head >= LookBehind \/ head - b >= LookBehind

\* InsertBlocks writes all blocks or, if one is too large or has a parent
\* without total difficulty, none.
Insertable(S) == \A b \in S : kind[b] # "oversize" /\ (HasTd(b - 1) \/ b - 1 \in S)

InsertBlocks(S) ==
  /\ known' = IF Insertable(S) THEN known \cup S ELSE known
  /\ td' = IF Insertable(S) THEN td \cup S ELSE td
  /\ UNCHANGED head

\* An answer: its status and latest valid hash, where a missing segment
\* starts, the blocks that are purged, and those that the execution stage
\* reports as bad on the way.
Verdict(st, valid) ==
  [status |-> st, valid |-> valid, missing |-> NoBlock, purged |-> {}, reported |-> {}]

Refusal(b, lvh, S) == [Verdict("BadBlock", lvh) EXCEPT !.purged = (lvh + 1)..b, !.reported = S]

\* The node is stopped during the execution in memory: it ends after some
\* block, and what ends it makes the next one a bad block.
Interrupted(b) ==
  {Verdict("Error", NoBlock)} \cup
  {Refusal(b, l, {}) : l \in {m \in head..(b - 1) : ~Invalid(m)}}

\* ValidateChain, once it has the semaphore.
ValidateChain(b) ==
  IF b \notin known THEN {Verdict("MissingSegment", NoBlock)}
  ELSE IF FarAway(b) THEN {Verdict("TooFarAway", NoBlock)}
  ELSE IF Gap(b) # {} THEN {[Verdict("MissingChain", NoBlock) EXCEPT !.missing = Max(Gap(b))]}
  ELSE (IF stopping THEN Interrupted(b) ELSE {}) \cup
       (IF Invalid(b) THEN {Refusal(b, FirstBad(b) - 1, S) : S \in {{}, {FirstBad(b)}}}
                      ELSE {Verdict("Success", b)})

ReportBadHeaderPoS(S, valid) ==
  badPoSHeaders' = [b \in Blocks |-> IF b \in S THEN valid ELSE badPoSHeaders[b]]

\* Mutant: the arguments of ReportBadHeaderPoS are swapped.
ValidatedSwapped(v, S) ==
  /\ known' = known \ v.purged
  /\ UNCHANGED <<td, head, pending>>
  /\ semaphore' = Free
  /\ badPoSHeaders' =
       [b \in Blocks |-> IF v.status = "BadBlock" /\ b = v.valid /\ S # {} THEN Min(S)
                         ELSE IF b \in v.reported THEN b - 1
                         ELSE badPoSHeaders[b]]

\* The end of ValidateChain: what it purged is gone, though not its total
\* difficulty; the caller reports the blocks of S if the chain is bad.
Validated(v, S) ==
  /\ known' = known \ v.purged
  /\ UNCHANGED <<td, head, pending>>
  /\ semaphore' = Free
  /\ badPoSHeaders' =
       [b \in Blocks |-> IF v.status = "BadBlock" /\ b \in S THEN v.valid
                         ELSE IF b \in v.reported THEN b - 1
                         ELSE badPoSHeaders[b]]

\* A fork choice that outlived its timer, or the pruning after one.
FinishForkChoice ==
  /\ semaphore = Background
  /\ head' = IF pending = NoBlock THEN head ELSE pending
  /\ semaphore' = Free /\ pending' = NoBlock
  /\ UNCHANGED <<kind, known, td, stopping, call, lock, downloaderVars, hdVars, badPoSHeaders>>

Stop ==
  /\ Stops /\ ~stopping
  /\ stopping' = TRUE
  /\ UNCHANGED <<kind, execVars, call, lock, downloaderVars, hdVars, badPoSHeaders>>
-----------------------------------------------------------------------------
(***************************************************************************)
(* The handlers.                                                           *)
(***************************************************************************)
At(h, place) == call[h].at = place

GoTo(h, place) == call' = [call EXCEPT ![h].at = place]

Answered(h, answer, valid) ==
  call' = [call EXCEPT ![h] = [method |-> NoMethod, block |-> @.block, at |-> "answered",
                               downloaded |-> FALSE, answer |-> answer, valid |-> valid]]

\* The answer under s.lock, which is released with it.
Return(h, answer, valid) ==
  /\ Answered(h, answer, valid)
  /\ lock' = Free

\* A call begins with getQuickPayloadStatusIfPossible up to its first wait: a
\* repeated fork choice, a block that is known to be bad, a canonical one, or
\* one that may have to be downloaded.
Began(h, method, b, place, answer, valid) ==
  call' = [call EXCEPT ![h] = [method |-> IF place = "answered" THEN NoMethod ELSE method,
                               block |-> b, at |-> place, downloaded |-> FALSE,
                               answer |-> answer, valid |-> valid]]

\* forkchoiceUpdated takes s.lock even when it has its answer.
PlaceWithAnswer(method) == IF method = "newPayload" THEN "answered" ELSE "lock"

Repeated(h, b) ==
  /\ At(h, "answered") /\ b = head
  /\ Began(h, "forkchoiceUpdated", b, "lock", "VALID", b)
  /\ UNCHANGED <<kind, execVars, stopping, lock, downloaderVars, hdVars, badPoSHeaders>>

\* Of the block and, for newPayload, its parent: those that were reported bad.
Suspects(method, b) ==
  {x \in IF method = "newPayload" THEN {b - 1, b} \cap Blocks ELSE {b} : badPoSHeaders[x] # NotBad}

\* Mutant: the parent is taken for the last valid ancestor.
PreviouslyBadParent(h, method, b) ==
  /\ At(h, "answered") /\ Suspects(method, b) # {}
  /\ ReportBadHeaderPoS({b}, b - 1)
  /\ Began(h, method, b, PlaceWithAnswer(method), "INVALID", b - 1)
  /\ UNCHANGED <<kind, execVars, stopping, lock, downloaderVars, hdVars>>

PreviouslyBad(h, method, b) ==
  LET lvh == badPoSHeaders[Max(Suspects(method, b))]
  IN  /\ At(h, "answered") /\ Suspects(method, b) # {}
      /\ ReportBadHeaderPoS({b}, lvh)
      /\ Began(h, method, b, PlaceWithAnswer(method), "INVALID", lvh)
      /\ UNCHANGED <<kind, execVars, stopping, lock, downloaderVars, hdVars>>

\* The block a handler must have so that nothing need be downloaded.
Needed(method, b) == IF method = "newPayload" THEN b - 1 ELSE b

Settled(method, b) == IsCanonical(b) /\ (method = "newPayload" \/ b # head)

Quick(h, method, b) ==
  /\ At(h, "answered") /\ Suspects(method, b) = {}
  /\ IF Settled(method, b) THEN Began(h, method, b, PlaceWithAnswer(method), "VALID", b)
     ELSE IF ~Has(Needed(method, b)) /\ status = "Syncing"
          THEN Began(h, method, b, "downloading", "none", NoBlock)
     ELSE Began(h, method, b, "ready", "none", NoBlock)
  /\ UNCHANGED <<kind, execVars, stopping, lock, downloaderVars, hdVars, badPoSHeaders>>

QuickAnswer(h, answer) ==
  IF call[h].method = "newPayload" THEN Answered(h, answer, NoBlock)
  ELSE call' = [call EXCEPT ![h].at = "lock", ![h].answer = answer]

\* waitForStuff, 50 ms: the need for a download is not looked at again.
WaitDownload(h) ==
  /\ At(h, "downloading")
  /\ \/ status # "Syncing" /\ GoTo(h, "ready")
     \/ status = "Syncing" /\ QuickAnswer(h, "SYNCING")
  /\ UNCHANGED <<kind, execVars, stopping, lock, downloaderVars, hdVars, badPoSHeaders>>

\* waitForStuff, 500 ms: Ready tries the semaphore.
WaitReady(h) ==
  /\ At(h, "ready")
  /\ \/ semaphore = Free /\ GoTo(h, "lock")
     \/ semaphore # Free /\ QuickAnswer(h, "SYNCING")
  /\ UNCHANGED <<kind, execVars, stopping, lock, downloaderVars, hdVars, badPoSHeaders>>

\* s.lock is taken, by a call that still has to find its answer or by a
\* forkchoiceUpdated that only returns it.
Enter(h) == At(h, "lock") /\ lock = Free /\ call[h].answer = "none"

ReturnQuick(h) ==
  /\ At(h, "lock") /\ lock = Free /\ call[h].answer # "none"
  /\ Return(h, call[h].answer, call[h].valid)
  /\ UNCHANGED <<kind, execVars, stopping, downloaderVars, hdVars, badPoSHeaders>>

\* StartDownloading, refused while a download is running.
StartDownloading(hash, tip) ==
  IF status = "Syncing" THEN UNCHANGED downloaderVars
  ELSE status' = "Syncing" /\ download' = [at |-> "schedule", hash |-> hash, tip |-> tip]

\* HandleNewPayload: the parent is missing and is downloaded, or is there and
\* the block is inserted.
FetchParent(h) ==
  LET b == call[h].block
  IN  /\ Enter(h) /\ call[h].method = "newPayload" /\ ~Has(b - 1)
      /\ StartDownloading(b - 1, b)
      /\ IF status = "Syncing" THEN Return(h, "SYNCING", NoBlock)
         ELSE GoTo(h, "wait") /\ lock' = h
      /\ UNCHANGED <<kind, execVars, stopping, hdVars, badPoSHeaders>>

HaveParent(h) ==
  /\ Enter(h) /\ call[h].method = "newPayload" /\ Has(call[h].block - 1)
  /\ GoTo(h, IF FarAway(call[h].block) THEN "accept" ELSE "insert")
  /\ lock' = h
  /\ UNCHANGED <<kind, execVars, stopping, downloaderVars, hdVars, badPoSHeaders>>

\* waitForStuff for a slot: what the downloader made of the request.
WaitSynced(h) ==
  /\ At(h, "wait")
  /\ \/ status = "Synced" /\ UNCHANGED lock
        /\ call' = [call EXCEPT ![h].at = "verify", ![h].downloaded = TRUE]
     \/ status # "Synced" /\ Return(h, "SYNCING", NoBlock)
  /\ UNCHANGED <<kind, execVars, stopping, downloaderVars, hdVars, badPoSHeaders>>

\* Mutant: InsertBlockAndWait tries again after an error, too.
InsertRetries(h) ==
  LET b == call[h].block
  IN  /\ At(h, "insert") \/ At(h, "accept")
      /\ semaphore = Free
      /\ InsertBlocks({b})
      /\ CASE kind[b] = "oversize" -> UNCHANGED <<call, lock>>
           [] kind[b] # "oversize" /\ At(h, "accept") -> Return(h, "ACCEPTED", NoBlock)
           [] kind[b] # "oversize" /\ At(h, "insert") -> GoTo(h, "verify") /\ UNCHANGED lock
      /\ UNCHANGED <<kind, semaphore, pending, stopping, downloaderVars, hdVars, badPoSHeaders>>

\* InsertBlockAndWait tries again until it gets the semaphore.
Insert(h) ==
  LET b == call[h].block
  IN  /\ At(h, "insert") \/ At(h, "accept")
      /\ semaphore = Free
      /\ InsertBlocks({b})
      /\ CASE kind[b] = "oversize" -> Return(h, "INVALID", NoBlock)
           [] kind[b] # "oversize" /\ At(h, "accept") -> Return(h, "ACCEPTED", NoBlock)
           [] kind[b] # "oversize" /\ At(h, "insert") -> GoTo(h, "verify") /\ UNCHANGED lock
      /\ UNCHANGED <<kind, semaphore, pending, stopping, downloaderVars, hdVars, badPoSHeaders>>

\* ValidateChain takes the semaphore or answers Busy.
TryValidate(h) ==
  /\ At(h, "verify")
  /\ IF semaphore = Free THEN GoTo(h, "validate") /\ semaphore' = h /\ UNCHANGED lock
     ELSE Return(h, "SYNCING", NoBlock) /\ UNCHANGED semaphore
  /\ UNCHANGED <<kind, dbVars, pending, stopping, downloaderVars, hdVars, badPoSHeaders>>

\* convertGrpcStatusToEngineStatus.
EngineStatus(st) ==
  CASE st = "Success" -> "VALID"
    [] st \in {"MissingSegment", "TooFarAway"} -> "ACCEPTED"
    [] st = "BadBlock" -> "INVALID"
    [] st = "Error" -> "ERROR"
    [] st \in {"MissingChain", "Busy"} -> "SYNCING"

\* After a download all that is not SYNCING is VALID.
StatusAfterDownload(st) ==
  CASE st \in {"TooFarAway", "MissingChain"} -> "SYNCING"
    [] st = "Error" -> "ERROR"
    [] st \in {"Success", "MissingSegment", "BadBlock"} -> "VALID"

Validate(h) ==
  LET b == call[h].block
  IN  /\ At(h, "validate")
      /\ \E v \in ValidateChain(b) :
           /\ Validated(v, IF call[h].downloaded THEN {} ELSE {b})
           /\ IF v.status = "MissingChain" THEN StartDownloading(v.missing, b)
              ELSE UNCHANGED downloaderVars
           /\ Return(h, IF call[h].downloaded THEN StatusAfterDownload(v.status)
                        ELSE EngineStatus(v.status), v.valid)
      /\ UNCHANGED <<kind, stopping, hdVars>>

\* HandlesForkChoice: the header is missing and is downloaded, the semaphore
\* is taken, or the execution module is busy.
FetchHead(h) ==
  LET b == call[h].block
  IN  /\ Enter(h) /\ call[h].method = "forkchoiceUpdated" /\ ~Has(b)
      /\ StartDownloading(b, NoBlock)
      /\ Return(h, "SYNCING", NoBlock)
      /\ UNCHANGED <<kind, execVars, stopping, hdVars, badPoSHeaders>>

TryUpdate(h) ==
  /\ Enter(h) /\ call[h].method = "forkchoiceUpdated" /\ Has(call[h].block)
  /\ IF semaphore = Free THEN GoTo(h, "update") /\ semaphore' = h /\ lock' = h
     ELSE Return(h, "SYNCING", NoBlock) /\ UNCHANGED semaphore
  /\ UNCHANGED <<kind, dbVars, pending, stopping, downloaderVars, hdVars, badPoSHeaders>>

\* updateForkChoice without a change of the head.
Refuse(h) ==
  LET b == call[h].block
  IN  /\ At(h, "update")
      /\ \/ (b \notin known \/ stopping) /\ Return(h, "ERROR", NoBlock) /\ UNCHANGED badPoSHeaders
         \/ b \in known /\ IsCanonical(b) /\ Return(h, "VALID", b) /\ UNCHANGED badPoSHeaders
         \/ b \in known /\ Gap(b) # {} /\ Return(h, "ACCEPTED", NoBlock) /\ UNCHANGED badPoSHeaders
         \/ /\ b \in known /\ Gap(b) = {} /\ Invalid(b)
            /\ ReportBadHeaderPoS({FirstBad(b)}, FirstBad(b) - 1)
            /\ Return(h, "INVALID", NoBlock)
      /\ semaphore' = Free
      /\ UNCHANGED <<kind, dbVars, pending, stopping, downloaderVars, hdVars>>

\* updateForkChoice makes the block the head, with pruning after it; or its
\* timer comes first, and it is done in the background.
Adopt(h) ==
  LET b == call[h].block
  IN  /\ At(h, "update")
      /\ b \in known /\ ~IsCanonical(b) /\ Gap(b) = {} /\ ~Invalid(b)
      /\ \/ head' = b /\ pending' = NoBlock /\ Return(h, "VALID", b)
         \/ head' = head /\ pending' = b /\ Return(h, "SYNCING", NoBlock)
      /\ semaphore' = Background
      /\ UNCHANGED <<kind, known, td, stopping, downloaderVars, hdVars, badPoSHeaders>>
-----------------------------------------------------------------------------
(***************************************************************************)
(* The downloader: EngineBlockDownloader.download.                         *)
(***************************************************************************)
DownloadAt(place) == download.at = place

DownloadGoesTo(place) ==
  /\ download' = [download EXCEPT !.at = place]
  /\ UNCHANGED status

DownloadEnds(st) ==
  /\ download' = [at |-> "off", hash |-> NoBlock, tip |-> NoBlock]
  /\ status' = st

\* scheduleHeadersDownload, in the order of its calls: each takes the lock of
\* headerdownload by itself.
SetHeaderToDownloadPoS ==
  /\ DownloadAt("schedule")
  /\ IF posStatus # "Idle" THEN DownloadEnds("Idle") /\ UNCHANGED posAnchor
     ELSE /\ posAnchor' = [hash |-> download.hash, timeouts |-> 0]
          /\ DownloadGoesTo("collector")
  /\ UNCHANGED <<kind, execVars, stopping, call, lock, posStatus, headersCollector, badPoSHeaders>>

SetHeadersCollector ==
  /\ DownloadAt("collector")
  /\ headersCollector' = [open |-> TRUE, headers |-> {}]
  /\ DownloadGoesTo("start")
  /\ UNCHANGED <<kind, execVars, stopping, call, lock, posStatus, posAnchor, badPoSHeaders>>

SetPosStatus ==
  /\ DownloadAt("start")
  /\ posStatus' = "Syncing"
  /\ DownloadGoesTo("wait")
  /\ UNCHANGED <<kind, execVars, stopping, call, lock, posAnchor, headersCollector, badPoSHeaders>>

WaitForEndOfHeadersDownload ==
  /\ DownloadAt("wait")
  /\ \/ posStatus = "Synced" /\ posStatus' = "Idle" /\ DownloadGoesTo("load")
     \/ (posStatus = "Idle" \/ stopping) /\ DownloadEnds("Idle") /\ UNCHANGED posStatus
  /\ UNCHANGED <<kind, execVars, stopping, call, lock, posAnchor, headersCollector, badPoSHeaders>>

\* Mutant: the error of InsertBlocks is dropped.
LoadBlocksNoError ==
  /\ DownloadAt("load") /\ semaphore = Free /\ ~stopping
  /\ InsertBlocks(headersCollector.headers)
  /\ headersCollector' = [headersCollector EXCEPT !.headers = {}]
  /\ IF download.tip = NoBlock THEN DownloadEnds("Synced") ELSE DownloadGoesTo("tip")
  /\ UNCHANGED <<kind, semaphore, pending, stopping, call, lock, posStatus, posAnchor, badPoSHeaders>>

\* loadDownloadedHeaders and downloadAndLoadBodiesSyncronously.
LoadBlocks ==
  /\ DownloadAt("load") /\ semaphore = Free /\ ~stopping
  /\ InsertBlocks(headersCollector.headers)
  /\ headersCollector' = [headersCollector EXCEPT !.headers = {}]
  /\ IF ~Insertable(headersCollector.headers) THEN DownloadEnds("Idle")
     ELSE IF download.tip = NoBlock THEN DownloadEnds("Synced") ELSE DownloadGoesTo("tip")
  /\ UNCHANGED <<kind, semaphore, pending, stopping, call, lock, posStatus, posAnchor, badPoSHeaders>>

\* "Can fail, not an issue in this case."
InsertTip ==
  /\ DownloadAt("tip") /\ semaphore = Free
  /\ InsertBlocks({download.tip})
  /\ DownloadGoesTo("verify")
  /\ UNCHANGED <<kind, semaphore, pending, stopping, call, lock, hdVars, badPoSHeaders>>

StopDownload ==
  /\ DownloadAt("load") \/ DownloadAt("tip") \/ DownloadAt("verify")
  /\ stopping
  /\ DownloadEnds("Idle")
  /\ UNCHANGED <<kind, execVars, stopping, call, lock, hdVars, badPoSHeaders>>

TryValidateTip ==
  /\ DownloadAt("verify")
  /\ IF semaphore = Free THEN DownloadGoesTo("validate") /\ semaphore' = Downloader
     ELSE DownloadEnds("Idle") /\ UNCHANGED semaphore
  /\ UNCHANGED <<kind, dbVars, pending, stopping, call, lock, hdVars, badPoSHeaders>>

\* Mutant: a bad chain is reported, and the download goes on to its end.
ValidateTipGoesOn ==
  /\ DownloadAt("validate")
  /\ \E v \in ValidateChain(download.tip) :
       /\ Validated(v, {download.tip})
       /\ DownloadEnds(IF v.status \in {"Success", "MissingSegment", "BadBlock"} THEN "Synced" ELSE "Idle")
  /\ UNCHANGED <<kind, stopping, call, lock, hdVars>>

ValidateTip ==
  /\ DownloadAt("validate")
  /\ \E v \in ValidateChain(download.tip) :
       /\ Validated(v, {download.tip})
       /\ DownloadEnds(IF v.status \in {"Success", "MissingSegment"} THEN "Synced" ELSE "Idle")
  /\ UNCHANGED <<kind, stopping, call, lock, hdVars>>
-----------------------------------------------------------------------------
(***************************************************************************)
(* headerdownload.                                                         *)
(***************************************************************************)
\* StartPoSDownloader: a request that was sent to a peer.
RequestHeaders ==
  /\ posStatus = "Syncing" /\ ~stopping
  /\ posAnchor # NoAnchor /\ posAnchor.timeouts < MaxTimeouts
  /\ posAnchor' = [posAnchor EXCEPT !.timeouts = @ + 1]
  /\ UNCHANGED <<kind, execVars, stopping, call, lock, downloaderVars, posStatus,
                 headersCollector, badPoSHeaders>>

\* Mutant: the status is left as it is.
CleanUpPoSDownloadOpen ==
  /\ \/ posStatus = "Syncing" /\ posAnchor # NoAnchor /\ posAnchor.timeouts >= MaxTimeouts
     \/ stopping /\ (posStatus # "Idle" \/ headersCollector.open)
  /\ headersCollector' = NoCollector /\ posAnchor' = NoAnchor
  /\ UNCHANGED <<kind, execVars, stopping, call, lock, downloaderVars, posStatus, badPoSHeaders>>

\* cleanUpPoSDownload, at the last timeout or at the end of the loop.  (The
\* code keeps the anchor, which without collector nobody uses.)
CleanUpPoSDownload ==
  /\ \/ posStatus = "Syncing" /\ posAnchor # NoAnchor /\ posAnchor.timeouts >= MaxTimeouts
     \/ stopping /\ (posStatus # "Idle" \/ headersCollector.open)
  /\ headersCollector' = NoCollector /\ posAnchor' = NoAnchor
  /\ posStatus' = "Idle"
  /\ UNCHANGED <<kind, execVars, stopping, call, lock, downloaderVars, badPoSHeaders>>

\* ProcessHeadersPOS of the headers lo..a, where a is the one the anchor waits
\* for: they are collected from the top down to the first one whose parent is
\* in the database.
Joins(a, lo) == {c \in lo..a : Has(c - 1)}

ProcessHeadersPOS(lo) ==
  LET a == posAnchor.hash
      low == IF Joins(a, lo) = {} THEN lo ELSE Max(Joins(a, lo))
  IN  /\ posAnchor # NoAnchor /\ headersCollector.open
      /\ SetupRaces \/ download.at \notin {"collector", "start"}
      /\ lo <= a
      /\ headersCollector' = [headersCollector EXCEPT !.headers = @ \cup (low..a)]
      /\ IF Joins(a, lo) # {} THEN posAnchor' = NoAnchor /\ posStatus' = "Synced"
         ELSE posAnchor' = [hash |-> lo - 1, timeouts |-> 0] /\ UNCHANGED posStatus
      /\ UNCHANGED <<kind, execVars, stopping, call, lock, downloaderVars, badPoSHeaders>>
-----------------------------------------------------------------------------
Locks(h) == ReturnQuick(h) \/ FetchParent(h) \/ HaveParent(h) \/ FetchHead(h) \/ TryUpdate(h)

Handle(h) ==
  \/ WaitDownload(h) \/ WaitReady(h) \/ Locks(h) \/ WaitSynced(h) \/ Insert(h)
  \/ TryValidate(h) \/ Validate(h) \/ Refuse(h) \/ Adopt(h)

Begin(h) ==
  \E b \in Blocks :
    \/ Repeated(h, b)
    \/ \E method \in Methods : PreviouslyBad(h, method, b) \/ Quick(h, method, b)

Download ==
  \/ SetHeaderToDownloadPoS \/ SetHeadersCollector \/ SetPosStatus
  \/ WaitForEndOfHeadersDownload \/ LoadBlocks \/ InsertTip \/ StopDownload
  \/ TryValidateTip \/ ValidateTip

PoSLoop == RequestHeaders \/ CleanUpPoSDownload

Next ==
  \/ \E h \in Handlers : Begin(h) \/ Handle(h)
  \/ Download \/ PoSLoop \/ FinishForkChoice \/ Stop
  \/ \E lo \in Blocks : ProcessHeadersPOS(lo)

Spec == Init /\ [][Next]_vars

\* Every goroutine runs on; the lock and the semaphore are not always taken
\* by somebody else first.
FairSpec ==
  /\ Spec
  /\ WF_vars(Download) /\ WF_vars(PoSLoop) /\ WF_vars(FinishForkChoice)
  /\ SF_vars(LoadBlocks) /\ SF_vars(InsertTip)
  /\ \A h \in Handlers : WF_vars(Handle(h)) /\ SF_vars(Locks(h)) /\ SF_vars(Insert(h))
-----------------------------------------------------------------------------
\* newPayload and forkchoiceUpdated answer VALID only for a block that is valid
\* with all its ancestors, also when it was downloaded and verified by others.
ValidIsValid == \A h \in Handlers : call[h].answer = "VALID" => ~Invalid(call[h].block)

\* As long as the node is not being stopped, no valid block is answered INVALID:
\* what was reported bad, by whomever, is bad.
NoFalseInvalid ==
  ~stopping => \A h \in Handlers : call[h].answer = "INVALID" => Invalid(call[h].block)

\* The latest valid hash of an INVALID answer is a valid ancestor, the last one:
\* the block above it is bad.
LatestValidIsRight ==
  ~stopping => \A h \in Handlers :
    call[h].answer = "INVALID" /\ call[h].valid # NoBlock =>
      ~Invalid(call[h].valid) /\ Invalid(call[h].valid + 1)

\* As long as the node is not being stopped, the downloader says Synced only when
\* the block it was asked for is in the database, or was until another call found
\* the chain of the tip bad and purged it.
SyncedMeansHave ==
  [][status' = "Synced" /\ status # "Synced" /\ ~stopping =>
       \/ download.hash \in known'
       \/ download.hash \in td' /\ download.tip # NoBlock /\ Invalid(download.tip)]_vars

\* A download ends: StartDownloading is not refused for ever.
SyncingEnds == status = "Syncing" ~> status # "Syncing"

\* Every call of the consensus client is answered.
HandlerReturns == \A h \in Handlers : call[h].at # "answered" ~> call[h].at = "answered"
=============================================================================
