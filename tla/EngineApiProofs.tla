--------------------------- MODULE EngineApiProofs ---------------------------
(***************************************************************************)
(* For chains of any length and any number of concurrent calls: what the   *)
(* engine API server answers is right.                                     *)
(***************************************************************************)
EXTENDS EngineApi, WellFoundedInduction, TLAPS

\* l is the last valid ancestor of the invalid block b.
LastValid(l, b) == l \in 0..(b - 1) /\ ~Invalid(l) /\ Invalid(l + 1)

\* The inductive invariant behind NoFalseInvalid and LatestValidIsRight: what was
\* reported bad is bad, and so is what was answered INVALID, before s.lock too.
BadRight ==
  ~stopping => \A b \in Blocks :
    badPoSHeaders[b] # NotBad => LastValid(badPoSHeaders[b], b)

InvalidRight(c) ==
  c.answer = "INVALID" =>
    /\ Invalid(c.block)
    /\ c.valid # NoBlock => LastValid(c.valid, c.block)

AnswersRight == ~stopping => \A h \in Handlers : InvalidRight(call[h])

\* The inductive invariant behind SyncedMeansHave: how far a download is and what
\* the header download has of it.
Anchored == posAnchor = NoAnchor \/ posAnchor.hash = download.hash

Running == status = "Syncing" <=> download.at # "off"

Asked ==
  download.at # "off" =>
    /\ download.hash \in Blocks
    /\ download.tip # NoBlock => download.hash < download.tip

Collected ==
  /\ download.at \in {"collector", "start"} => posStatus = "Idle" /\ Anchored
  /\ download.at = "wait" =>
       /\ Anchored \/ download.hash \in headersCollector.headers
       /\ posStatus = "Synced" => download.hash \in headersCollector.headers
  /\ download.at = "load" /\ ~stopping =>
       posStatus # "Syncing" /\ download.hash \in headersCollector.headers

Stored ==
  download.at \in {"tip", "verify", "validate"} =>
    /\ download.hash \in td
    /\ stopping \/ download.hash \in known \/ Invalid(download.tip)

DownloadInv == Running /\ Asked /\ Collected /\ Stored

\* The inductive invariant behind ValidIsValid.  A call that waits for its
\* download holds s.lock, so nobody validates or purges until the tip is verified.
UnderLock == {"wait", "insert", "accept", "verify", "validate", "update"}

LockInv == \A h \in Handlers : call[h].at \in UnderLock => lock = h

HeadInv == ~Invalid(head) /\ (pending # NoBlock => ~Invalid(pending))

Waiting(h) ==
  \/ status = "Idle"
  \/ /\ status = "Syncing"
     /\ download.tip = call[h].block /\ download.hash = call[h].block - 1
     /\ download.at \in {"verify", "validate"} => download.tip \in known
  \/ status = "Synced" /\ ~Invalid(call[h].block)

WaitInv == \A h \in Handlers : call[h].at = "wait" => Waiting(h)

ValidRight(c) == c.answer = "VALID" \/ c.downloaded => ~Invalid(c.block)

ValidInv ==
  /\ LockInv /\ HeadInv /\ WaitInv
  /\ \A h \in Handlers : ValidRight(call[h])
-----------------------------------------------------------------------------
(* A non-empty set of numbers has a least one: FirstBad is defined.        *)
LEMMA LeastIs ==
  ASSUME NEW S \in SUBSET Nat, S # {}
  PROVE  Min(S) \in S /\ \A x \in S : Min(S) <= x
<1>1. PICK n \in S : \A m \in S : ~(<<m, n>> \in OpToRel(<, Nat))
  BY NatLessThanWellFounded, WFMin, Zenon
<1>2. \A m \in S : ~(m < n)
  BY <1>1, Zenon DEF OpToRel
<1>3. \A m \in S : n <= m
  BY <1>2
<1> QED
  BY <1>3, Zenon DEF Min

(* A bounded one has a greatest: the missing segment starts somewhere.     *)
LEMMA GreatestIs ==
  ASSUME NEW b \in Nat, NEW S \in SUBSET 0..b, S # {}
  PROVE  Max(S) \in S
<1> DEFINE T == {b - x : x \in S}
<1>0. \A x \in S : x \in 0..b /\ b - x \in Nat
  OBVIOUS
<1>1. T \in SUBSET Nat /\ T # {}
  BY <1>0, Zenon
<1>2. Min(T) \in T /\ \A y \in T : Min(T) <= y
  BY <1>1, LeastIs, Zenon
<1>3. PICK n \in S : Min(T) = b - n
  BY <1>2, Zenon
<1>4. \A x \in S : b - n <= b - x
  BY <1>2, <1>3, Zenon
<1>5. \A x \in S : n >= x
  BY <1>0, <1>4
<1> QED
  BY <1>5, Zenon DEF Max

(* The blocks are the numbers up to N.                                     *)
LEMMA BlockIs ==
  ASSUME NEW b \in Blocks
  PROVE  b \in Nat /\ b >= 1 /\ b <= N /\ N \in Nat
  BY EngineAssumption DEF Blocks

(* What lies on an invalid block is invalid, and genesis is valid.         *)
LEMMA InvalidAbove ==
  ASSUME NEW a \in Nat, NEW b \in Nat, a <= b, Invalid(a)
  PROVE  Invalid(b)
  BY DEF Invalid, Defective

LEMMA GenesisValid == ~Invalid(0)
  BY DEF Invalid, Defective

(* The block below the first bad one is the last valid one.                *)
LEMMA FirstBadIs ==
  ASSUME NEW b \in Blocks, Invalid(b)
  PROVE  /\ FirstBad(b) \in Blocks /\ FirstBad(b) <= b
         /\ LastValid(FirstBad(b) - 1, b)
         /\ LastValid(FirstBad(b) - 1, FirstBad(b))
         /\ \A a \in Nat : Invalid(a) => FirstBad(b) <= a
<1>1. b \in Nat /\ b >= 1 /\ b <= N /\ N \in Nat
  BY BlockIs
<1> DEFINE f == FirstBad(b)
<1>2. Defective(b) \in SUBSET Nat /\ Defective(b) # {}
  BY <1>1 DEF Defective, Invalid
<1>3. f \in Defective(b) /\ \A x \in Defective(b) : f <= x
  BY <1>2, LeastIs, Zenon DEF FirstBad
<1> HIDE DEF f
<1>4. f \in Nat /\ 1 <= f /\ f <= b /\ kind[f] # "good"
  BY <1>1, <1>3 DEF Defective
<1>5. \A a \in Nat : Invalid(a) => f <= a
  <2> SUFFICES ASSUME NEW a \in Nat, NEW x \in 1..a, kind[x] # "good" PROVE f <= a
    BY DEF Invalid, Defective
  <2>1. CASE x <= b
    BY <1>1, <1>3, <1>4, <2>1 DEF Defective
  <2>2. CASE x > b
    BY <1>1, <1>4, <2>2
  <2> QED
    BY <1>1, <2>1, <2>2
<1>6. ~Invalid(f - 1)
  BY <1>4, <1>5
<1>7. Invalid(f)
  BY <1>4 DEF Invalid, Defective
<1>8. f - 1 + 1 = f /\ f - 1 \in 0..(f - 1) /\ f - 1 \in 0..(b - 1) /\ f \in Blocks
  BY <1>1, <1>4 DEF Blocks
<1>9. LastValid(f - 1, b) /\ LastValid(f - 1, f)
  BY <1>6, <1>7, <1>8 DEF LastValid
<1> QED
  BY <1>4, <1>5, <1>8, <1>9 DEF f

LEMMA LastValidIs ==
  ASSUME NEW l, NEW b \in Nat, LastValid(l, b)
  PROVE  /\ Invalid(b)
         /\ \A c \in Nat : b <= c => LastValid(l, c)
<1>1. l \in Nat /\ l <= b - 1 /\ ~Invalid(l) /\ Invalid(l + 1)
  BY DEF LastValid
<1>2. Invalid(b)
  BY <1>1, InvalidAbove
<1>3. ASSUME NEW c \in Nat, b <= c PROVE l \in 0..(c - 1)
  BY <1>1, <1>3
<1> QED
  BY <1>1, <1>2, <1>3 DEF LastValid

-----------------------------------------------------------------------------
(* What a handler's step makes of the calls: its own call is c, the others *)
(* are as before.                                                          *)
Becomes(h, c) ==
  /\ call'[h] = c /\ c \in Call
  /\ \A g \in Handlers : g # h => call'[g] = call[g]
  /\ call' \in [Handlers -> Call]

LEMMA CallSet ==
  ASSUME TypeOK, NEW h \in Handlers, NEW c \in Call, call' = [call EXCEPT ![h] = c]
  PROVE  Becomes(h, c)
<1>1. call \in [Handlers -> Call]
  BY Zenon DEF TypeOK
<1> QED
  BY <1>1, Zenon DEF Becomes

LEMMA CallIs ==
  ASSUME TypeOK, NEW h \in Handlers
  PROVE  /\ call[h] \in Call
         /\ call[h].method \in Methods \cup {NoMethod}
         /\ call[h].block \in Blocks /\ call[h].at \in Places
         /\ call[h].downloaded \in BOOLEAN
         /\ call[h].answer \in {"none", "VALID", "INVALID", "SYNCING", "ACCEPTED", "ERROR"}
         /\ call[h].valid \in Blocks \cup {0, NoBlock}
<1>1. call[h] \in Call
  BY Zenon DEF TypeOK
<1> QED
  BY <1>1, Zenon DEF Call

LEMMA GoToIs ==
  ASSUME TypeOK, NEW h \in Handlers, NEW place \in Places, GoTo(h, place)
  PROVE  Becomes(h, [call[h] EXCEPT !.at = place])
<1>1. [call[h] EXCEPT !.at = place] \in Call
  BY CallIs, Zenon DEF Call
<1>2. call' = [call EXCEPT ![h] = [call[h] EXCEPT !.at = place]]
  BY Zenon DEF GoTo
<1> QED
  BY <1>1, <1>2, CallSet, Zenon

Reply(h, answer, valid) ==
  [method |-> NoMethod, block |-> call[h].block, at |-> "answered",
   downloaded |-> FALSE, answer |-> answer, valid |-> valid]

LEMMA AnsweredIs ==
  ASSUME TypeOK, NEW h \in Handlers,
         NEW answer \in {"none", "VALID", "INVALID", "SYNCING", "ACCEPTED", "ERROR"},
         NEW valid \in Blocks \cup {0, NoBlock}, Answered(h, answer, valid)
  PROVE  Becomes(h, Reply(h, answer, valid))
<1>1. call[h].block \in Blocks
  BY CallIs, Zenon
<1>2. Reply(h, answer, valid) \in Call
  BY <1>1 DEF Reply, Call, Places
<1>3. call' = [call EXCEPT ![h] = Reply(h, answer, valid)]
  BY Zenon DEF Answered, Reply
<1> QED
  BY <1>2, <1>3, CallSet, Zenon

LEMMA QuickAnswerIs ==
  ASSUME TypeOK, NEW h \in Handlers, QuickAnswer(h, "SYNCING")
  PROVE  \/ Becomes(h, Reply(h, "SYNCING", NoBlock))
         \/ Becomes(h, [call[h] EXCEPT !.at = "lock", !.answer = "SYNCING"])
<1>1. CASE call[h].method = "newPayload"
  <2>1. Answered(h, "SYNCING", NoBlock)
    BY <1>1, Zenon DEF QuickAnswer
  <2> QED
    BY <2>1, AnsweredIs, Zenon
<1>2. CASE call[h].method # "newPayload"
  <2> DEFINE c == [call[h] EXCEPT !.at = "lock", !.answer = "SYNCING"]
  <2>1. call[h] \in Call /\ "lock" \in Places
        /\ "SYNCING" \in {"none", "VALID", "INVALID", "SYNCING", "ACCEPTED", "ERROR"}
    BY CallIs DEF Places
  <2>2. c \in Call
    BY <2>1, Zenon DEF Call
  <2>3. call' = [call EXCEPT ![h].at = "lock", ![h].answer = "SYNCING"]
    BY <1>2, Zenon DEF QuickAnswer
  <2>4. call \in [Handlers -> Call]
    BY Zenon DEF TypeOK
  <2>5. call' = [call EXCEPT ![h] = c]
    BY <2>3, <2>4, Zenon
  <2> HIDE DEF c
  <2>6. Becomes(h, c)
    BY <2>2, <2>5, CallSet, Zenon
  <2> QED
    BY <2>6 DEF c
<1> QED
  BY <1>1, <1>2

Begun(method, b, place, answer, valid) ==
  [method |-> IF place = "answered" THEN NoMethod ELSE method,
   block |-> b, at |-> place, downloaded |-> FALSE, answer |-> answer, valid |-> valid]

LEMMA BeganIs ==
  ASSUME TypeOK, NEW h \in Handlers, NEW method \in Methods, NEW b \in Blocks,
         NEW place \in Places,
         NEW answer \in {"none", "VALID", "INVALID", "SYNCING", "ACCEPTED", "ERROR"},
         NEW valid \in Blocks \cup {0, NoBlock}, Began(h, method, b, place, answer, valid)
  PROVE  Becomes(h, Begun(method, b, place, answer, valid))
<1>1. Begun(method, b, place, answer, valid) \in Call
  BY DEF Begun, Call
<1>2. call' = [call EXCEPT ![h] = Begun(method, b, place, answer, valid)]
  BY Zenon DEF Began, Begun
<1> QED
  BY <1>1, <1>2, CallSet, Zenon

(* What ValidateChain may answer.                                          *)
LEMMA VerdictIs ==
  ASSUME TypeOK, NEW b \in Blocks, NEW v \in ValidateChain(b)
  PROVE  /\ v.status \in {"Success", "MissingSegment", "TooFarAway", "MissingChain",
                          "BadBlock", "Error"}
         /\ v.valid \in Blocks \cup {0, NoBlock}
         /\ v.status = "MissingChain" => v.missing \in Blocks /\ v.missing < b
         /\ v.status = "Success" => ~Invalid(b) /\ v.valid = b
         /\ v.status = "MissingSegment" => b \notin known
         /\ v.status # "BadBlock" => v.purged = {} /\ v.reported = {}
         /\ v.status = "BadBlock" /\ ~stopping =>
              LastValid(v.valid, b) /\ (\A a \in v.purged : Invalid(a))
         /\ ~stopping => \A a \in v.reported : LastValid(a - 1, a)
         /\ v.reported \subseteq Blocks
<1>1. b \in Nat /\ b >= 1 /\ b <= N /\ N \in Nat /\ head \in Nat
  BY BlockIs DEF TypeOK
<1>2. CASE v = Verdict("MissingSegment", NoBlock) /\ b \notin known
  BY <1>2 DEF Verdict
<1>3. CASE v = Verdict("TooFarAway", NoBlock) \/ v = Verdict("Error", NoBlock)
  BY <1>3 DEF Verdict
<1>4. CASE Gap(b) # {} /\ v = [Verdict("MissingChain", NoBlock) EXCEPT !.missing = Max(Gap(b))]
  <2>1. Gap(b) \in SUBSET 0..N
    BY <1>1 DEF Gap
  <2>2. Max(Gap(b)) \in Gap(b)
    BY <1>1, <1>4, <2>1, GreatestIs, Zenon
  <2>3. v.missing = Max(Gap(b)) /\ v.status = "MissingChain" /\ v.valid = NoBlock
        /\ v.purged = {} /\ v.reported = {}
    BY <1>4 DEF Verdict
  <2>4. v.missing \in Blocks /\ v.missing < b
    BY <1>1, <2>2, <2>3 DEF Gap, Blocks
  <2> QED
    BY <2>3, <2>4
<1>5. CASE stopping /\ \E l \in head..(b - 1) : v = Refusal(b, l, {})
  <2>1. PICK l \in head..(b - 1) : v = Refusal(b, l, {})
    BY <1>5
  <2>2. v.status = "BadBlock" /\ v.valid = l /\ v.reported = {}
    BY <2>1 DEF Refusal, Verdict
  <2>3. l \in Blocks \cup {0}
    BY <1>1 DEF Blocks
  <2> QED
    BY <1>5, <2>2, <2>3
<1>6. CASE Invalid(b) /\ \E S \in {{}, {FirstBad(b)}} : v = Refusal(b, FirstBad(b) - 1, S)
  <2>1. PICK S \in {{}, {FirstBad(b)}} : v = Refusal(b, FirstBad(b) - 1, S)
    BY <1>6
  <2>2. /\ FirstBad(b) \in Blocks /\ FirstBad(b) <= b
        /\ LastValid(FirstBad(b) - 1, b)
        /\ LastValid(FirstBad(b) - 1, FirstBad(b))
    BY <1>6, FirstBadIs
  <2> DEFINE f == FirstBad(b)
  <2> HIDE DEF f
  <2>3. v.status = "BadBlock" /\ v.valid = f - 1 /\ v.reported = S
        /\ v.purged = (f - 1 + 1)..b
    BY <2>1 DEF Refusal, Verdict, f
  <2>4. f \in Nat /\ f >= 1 /\ f <= N /\ f - 1 + 1 = f
    BY <2>2, BlockIs DEF f
  <2>5. Invalid(f)
    BY <2>2, <2>4, LastValidIs DEF f
  <2>6. \A a \in v.purged : Invalid(a)
    BY <1>1, <2>3, <2>4, <2>5, InvalidAbove
  <2>7. f - 1 \in Blocks \cup {0}
    BY <1>1, <2>4 DEF Blocks
  <2> QED
    BY <2>1, <2>2, <2>3, <2>6, <2>7 DEF f
<1>7. CASE ~Invalid(b) /\ v = Verdict("Success", b)
  BY <1>7 DEF Verdict
<1> QED
  BY <1>2, <1>3, <1>4, <1>5, <1>6, <1>7, Zenon DEF ValidateChain, Interrupted

-----------------------------------------------------------------------------
(* The states have their types, group by group.                            *)
DbOK ==
  /\ known \subseteq td /\ td \subseteq Blocks /\ head \in 0..N
  /\ semaphore \in Handlers \cup {Free, Downloader, Background}
  /\ pending \in Blocks \cup {NoBlock}
DownOK ==
  /\ status \in {"Idle", "Syncing", "Synced"}
  /\ download \in [at : {"off", "schedule", "collector", "start", "wait", "load", "tip",
                         "verify", "validate"},
                   hash : Blocks \cup {NoBlock}, tip : Blocks \cup {NoBlock}]
HdOK ==
  /\ posStatus \in {"Idle", "Syncing", "Synced"}
  /\ posAnchor \in [hash : Blocks \cup {NoBlock}, timeouts : 0..MaxTimeouts]
  /\ headersCollector \in [open : BOOLEAN, headers : SUBSET Blocks]
BadOK == badPoSHeaders \in [Blocks -> Blocks \cup {0, NotBad}]
CallOK == call \in [Handlers -> Call] /\ lock \in Handlers \cup {Free}

LEMMA TypeGroups ==
  TypeOK <=> /\ kind \in Chains /\ stopping \in BOOLEAN
             /\ DbOK /\ DownOK /\ HdOK /\ BadOK /\ CallOK
  BY Zenon DEF TypeOK, DbOK, DownOK, HdOK, BadOK, CallOK

LEMMA TypeFrame ==
  ASSUME TypeOK
  PROVE  /\ UNCHANGED execVars => DbOK'
         /\ UNCHANGED downloaderVars => DownOK'
         /\ UNCHANGED hdVars => HdOK'
         /\ UNCHANGED badPoSHeaders => BadOK'
         /\ UNCHANGED <<call, lock>> => CallOK'
<1>1. DbOK /\ DownOK /\ HdOK /\ BadOK /\ CallOK
  BY TypeGroups, Zenon
<1>2. UNCHANGED execVars => DbOK'
  BY <1>1, Zenon DEF DbOK, execVars, dbVars
<1>3. UNCHANGED downloaderVars => DownOK'
  BY <1>1, Zenon DEF DownOK, downloaderVars
<1>4. UNCHANGED hdVars => HdOK'
  BY <1>1, Zenon DEF HdOK, hdVars
<1>5. (UNCHANGED badPoSHeaders => BadOK') /\ (UNCHANGED <<call, lock>> => CallOK')
  BY <1>1, Zenon DEF BadOK, CallOK
<1> QED
  BY <1>2, <1>3, <1>4, <1>5, Zenon

(* A handler releases the lock, keeps it or takes it.                      *)
LEMMA CallTyped ==
  ASSUME TypeOK, NEW h \in Handlers, NEW c, Becomes(h, c),
         lock' = lock \/ lock' = Free \/ lock' = h
  PROVE  CallOK'
<1>1. lock \in Handlers \cup {Free}
  BY Zenon DEF TypeOK
<1> QED
  BY <1>1, Zenon DEF Becomes, CallOK

(* kind never changes and the node is not started again.                   *)
LEMMA Fixed ==
  ASSUME [Next]_vars
  PROVE  /\ kind' = kind /\ (stopping => stopping')
         /\ stopping' = stopping \/ stopping' = TRUE
<1>1. ASSUME UNCHANGED vars PROVE kind' = kind /\ stopping' = stopping
  BY <1>1, Zenon DEF vars
<1>2. ASSUME NEW h \in Handlers, Begin(h) PROVE kind' = kind /\ stopping' = stopping
  BY <1>2, Zenon DEF Begin, Repeated, PreviouslyBad, Quick
<1>3. ASSUME NEW h \in Handlers, Handle(h) PROVE kind' = kind /\ stopping' = stopping
  BY <1>3, Zenon DEF Handle, WaitDownload, WaitReady, Locks, ReturnQuick, FetchParent,
     HaveParent, FetchHead, TryUpdate, WaitSynced, Insert, TryValidate, Validate, Refuse, Adopt
<1>4. ASSUME Download PROVE kind' = kind /\ stopping' = stopping
  BY <1>4, Zenon DEF Download, SetHeaderToDownloadPoS, SetHeadersCollector, SetPosStatus,
     WaitForEndOfHeadersDownload, LoadBlocks, InsertTip, StopDownload, TryValidateTip,
     ValidateTip
<1>5. ASSUME PoSLoop \/ FinishForkChoice PROVE kind' = kind /\ stopping' = stopping
  BY <1>5, Zenon DEF PoSLoop, RequestHeaders, CleanUpPoSDownload, FinishForkChoice
<1>6. ASSUME NEW lo \in Blocks, ProcessHeadersPOS(lo) PROVE kind' = kind /\ stopping' = stopping
  BY <1>6, Zenon DEF ProcessHeadersPOS
<1>7. ASSUME Stop PROVE kind' = kind /\ stopping' = TRUE
  BY <1>7, Zenon DEF Stop
<1>8. kind' = kind /\ (stopping' = stopping \/ stopping' = TRUE)
  BY <1>1, <1>2, <1>3, <1>4, <1>5, <1>6, <1>7, Zenon DEF Next
<1> QED
  BY <1>8

(* The suspect that getQuickPayloadStatusIfPossible reports.               *)
LEMMA SuspectIs ==
  ASSUME TypeOK, NEW method \in Methods, NEW b \in Blocks, Suspects(method, b) # {}
  PROVE  LET s == Max(Suspects(method, b))
         IN  s \in Blocks /\ s <= b /\ badPoSHeaders[s] # NotBad
                  /\ badPoSHeaders[s] \in Blocks \cup {0}
<1>1. b \in Nat /\ b >= 1 /\ b <= N /\ N \in Nat
  BY BlockIs
<1>2. Suspects(method, b) \in SUBSET 0..N
  BY <1>1 DEF Suspects, Blocks
<1> DEFINE s == Max(Suspects(method, b))
<1>3. s \in Suspects(method, b)
  BY <1>1, <1>2, GreatestIs, Zenon
<1> HIDE DEF s
<1>4. s \in Blocks /\ s <= b /\ badPoSHeaders[s] # NotBad
  BY <1>1, <1>3 DEF Suspects
<1>5. badPoSHeaders[s] \in Blocks \cup {0, NotBad}
  BY <1>4, Zenon DEF TypeOK
<1> QED
  BY <1>4, <1>5 DEF s

LEMMA MethodPlaces ==
  ASSUME NEW method PROVE PlaceWithAnswer(method) \in {"answered", "lock"}
  BY DEF PlaceWithAnswer

LEMMA PlacesAre ==
  \A p \in {"answered", "downloading", "ready", "lock", "wait", "verify", "insert", "accept",
            "validate", "update"} : p \in Places
  BY DEF Places

LEMMA AnswersTyped ==
  /\ \A st \in {"Success", "MissingSegment", "TooFarAway", "MissingChain", "BadBlock", "Error"} :
       /\ EngineStatus(st) \in {"VALID", "INVALID", "SYNCING", "ACCEPTED", "ERROR"}
       /\ StatusAfterDownload(st) \in {"VALID", "SYNCING", "ERROR"}
       /\ EngineStatus(st) = "VALID" => st = "Success"
       /\ EngineStatus(st) = "INVALID" => st = "BadBlock"
  BY DEF EngineStatus, StatusAfterDownload

(* What Validated leaves, for a verdict of ValidateChain.                  *)
LEMMA ValidatedTyped ==
  ASSUME TypeOK, NEW b \in Blocks, NEW v \in ValidateChain(b), NEW S, Validated(v, S)
  PROVE  DbOK' /\ BadOK'
<1>1. DbOK /\ BadOK
  BY TypeGroups, Zenon
<1>2. known' \subseteq known /\ td' = td /\ head' = head /\ pending' = pending /\ semaphore' = Free
  BY DEF Validated
<1>3. DbOK'
  BY <1>1, <1>2 DEF DbOK
<1>4. v.valid \in Blocks \cup {0, NoBlock} /\ NotBad = NoBlock
  BY VerdictIs DEF NoBlock, NotBad
<1>5. \A x \in Blocks : x - 1 \in Blocks \cup {0}
  BY EngineAssumption DEF Blocks
<1>6. ASSUME NEW x \in Blocks
      PROVE  (IF v.status = "BadBlock" /\ x \in S THEN v.valid
              ELSE IF x \in v.reported THEN x - 1 ELSE badPoSHeaders[x])
                \in Blocks \cup {0, NotBad}
  BY <1>1, <1>4, <1>5, Zenon DEF BadOK
<1>7. BadOK'
  BY <1>6, Zenon DEF Validated, BadOK
<1> QED
  BY <1>3, <1>7

LEMMA ReportTyped ==
  ASSUME TypeOK, NEW S, NEW valid \in Blocks \cup {0}, ReportBadHeaderPoS(S, valid)
  PROVE  BadOK'
<1>1. BadOK
  BY TypeGroups, Zenon
<1>2. ASSUME NEW x \in Blocks
      PROVE  (IF x \in S THEN valid ELSE badPoSHeaders[x]) \in Blocks \cup {0, NotBad}
  BY <1>1, Zenon DEF BadOK
<1> QED
  BY <1>2, Zenon DEF ReportBadHeaderPoS, BadOK

LEMMA StartTyped ==
  ASSUME TypeOK, NEW hash \in Blocks, NEW tip \in Blocks \cup {NoBlock},
         StartDownloading(hash, tip)
  PROVE  DownOK'
<1>1. DownOK
  BY TypeGroups, Zenon
<1>2. CASE UNCHANGED downloaderVars
  BY <1>2, TypeFrame, Zenon
<1>3. CASE status' = "Syncing" /\ download' = [at |-> "schedule", hash |-> hash, tip |-> tip]
  BY <1>3 DEF DownOK
<1> QED
  BY <1>2, <1>3, Zenon DEF StartDownloading

LEMMA InsertTyped ==
  ASSUME TypeOK, NEW S, S \subseteq Blocks, InsertBlocks(S), UNCHANGED <<semaphore, pending>>
  PROVE  DbOK'
<1>1. DbOK
  BY TypeGroups, Zenon
<1> QED
  BY <1>1 DEF DbOK, InsertBlocks

LEMMA DownloadTyped ==
  ASSUME TypeOK
  PROVE  /\ \A st \in {"Idle", "Synced"} : DownloadEnds(st) => DownOK'
         /\ \A place \in {"collector", "start", "wait", "load", "tip", "verify", "validate"} :
              DownloadGoesTo(place) => DownOK'
<1>1. DownOK
  BY TypeGroups, Zenon
<1>2. ASSUME NEW st \in {"Idle", "Synced"}, DownloadEnds(st) PROVE DownOK'
  BY <1>2 DEF DownloadEnds, DownOK
<1>3. ASSUME NEW place \in {"collector", "start", "wait", "load", "tip", "verify", "validate"},
             DownloadGoesTo(place)
      PROVE  DownOK'
  <2>1. place \in {"off", "schedule", "collector", "start", "wait", "load", "tip",
                   "verify", "validate"}
    BY <1>3
  <2> QED
    BY <1>1, <1>3, <2>1, Zenon DEF DownloadGoesTo, DownOK
<1> QED
  BY <1>2, <1>3

Groups == DbOK /\ DownOK /\ HdOK /\ BadOK /\ CallOK

(* A handler's step that only concerns its call and the lock.              *)
LEMMA OnlyCall ==
  ASSUME TypeOK, NEW h \in Handlers, NEW c, Becomes(h, c),
         lock' = lock \/ lock' = Free \/ lock' = h,
         UNCHANGED <<execVars, downloaderVars, hdVars, badPoSHeaders>>
  PROVE  Groups'
<1>1. CallOK'
  BY CallTyped, Zenon
<1>2. UNCHANGED execVars /\ UNCHANGED downloaderVars /\ UNCHANGED hdVars /\ UNCHANGED badPoSHeaders
  BY Zenon
<1> QED
  BY <1>1, <1>2, TypeFrame, Zenon DEF Groups

LEMMA BeginTyped ==
  ASSUME TypeOK, NEW h \in Handlers, Begin(h)
  PROVE  Groups'
<1>1. ASSUME NEW b \in Blocks, Repeated(h, b) PROVE Groups'
  <2>1. Becomes(h, Begun("forkchoiceUpdated", b, "lock", "VALID", b))
    <3>1. Began(h, "forkchoiceUpdated", b, "lock", "VALID", b)
      BY <1>1, Zenon DEF Repeated
    <3>2. "lock" \in Places /\ "forkchoiceUpdated" \in Methods
      BY PlacesAre DEF Methods
    <3> QED
      BY <3>1, <3>2, BeganIs, Zenon
  <2> QED
    BY <1>1, <2>1, OnlyCall, Zenon DEF Repeated
<1>2. ASSUME NEW b \in Blocks, NEW method \in Methods, PreviouslyBad(h, method, b)
      PROVE  Groups'
  <2> DEFINE lvh == badPoSHeaders[Max(Suspects(method, b))]
  <2>1. lvh \in Blocks \cup {0}
    BY <1>2, SuspectIs, Zenon DEF PreviouslyBad
  <2>2. Began(h, method, b, PlaceWithAnswer(method), "INVALID", lvh) /\ ReportBadHeaderPoS({b}, lvh)
    BY <1>2, Zenon DEF PreviouslyBad
  <2>3. PlaceWithAnswer(method) \in Places
    BY MethodPlaces, PlacesAre
  <2> HIDE DEF lvh
  <2>4. Becomes(h, Begun(method, b, PlaceWithAnswer(method), "INVALID", lvh))
    BY <2>1, <2>2, <2>3, BeganIs, Zenon
  <2>5. BadOK'
    BY <2>1, <2>2, ReportTyped, Zenon
  <2>6. lock' = lock /\ UNCHANGED execVars /\ UNCHANGED downloaderVars /\ UNCHANGED hdVars
    BY <1>2, Zenon DEF PreviouslyBad
  <2>7. CallOK'
    BY <2>4, <2>6, CallTyped, Zenon
  <2> QED
    BY <2>5, <2>6, <2>7, TypeFrame, Zenon DEF Groups
<1>3. ASSUME NEW b \in Blocks, NEW method \in Methods, Quick(h, method, b) PROVE Groups'
  <2>1. PICK place \in {PlaceWithAnswer(method), "downloading", "ready"},
             answer \in {"VALID", "none"}, valid \in {b, NoBlock} :
          Began(h, method, b, place, answer, valid)
    BY <1>3, Zenon DEF Quick
  <2>2. place \in Places
    BY <2>1, MethodPlaces, PlacesAre
  <2>3. Becomes(h, Begun(method, b, place, answer, valid))
    BY <2>1, <2>2, BeganIs, Zenon
  <2> QED
    BY <1>3, <2>3, OnlyCall, Zenon DEF Quick
<1> QED
  BY <1>1, <1>2, <1>3, Zenon DEF Begin

LEMMA HandleTyped ==
  ASSUME TypeOK, NEW h \in Handlers, Handle(h)
  PROVE  Groups'
<1>b. call[h].block \in Blocks /\ call[h].valid \in Blocks \cup {0, NoBlock}
      /\ call[h].answer \in {"none", "VALID", "INVALID", "SYNCING", "ACCEPTED", "ERROR"}
  BY CallIs, Zenon
<1>p. \A p \in {"answered", "downloading", "ready", "lock", "wait", "verify", "insert", "accept",
                "validate", "update"} : p \in Places
  BY PlacesAre, Zenon
<1>1. CASE WaitDownload(h)
  <2>1. \E c : Becomes(h, c)
    BY <1>1, <1>p, GoToIs, QuickAnswerIs, Zenon DEF WaitDownload
  <2> QED
    BY <1>1, <2>1, OnlyCall, Zenon DEF WaitDownload
<1>2. CASE WaitReady(h)
  <2>1. \E c : Becomes(h, c)
    BY <1>2, <1>p, GoToIs, QuickAnswerIs, Zenon DEF WaitReady
  <2> QED
    BY <1>2, <2>1, OnlyCall, Zenon DEF WaitReady
<1>3. CASE ReturnQuick(h)
  <2>1. \E c : Becomes(h, c)
    BY <1>3, <1>b, AnsweredIs, Zenon DEF ReturnQuick, Return
  <2> QED
    BY <1>3, <2>1, OnlyCall, Zenon DEF ReturnQuick, Return
<1>4. CASE FetchParent(h)
  <2>1. call[h].block - 1 \in Blocks
    BY <1>4, <1>b, BlockIs DEF FetchParent, Has, Blocks
  <2>2. DownOK'
    BY <1>4, <1>b, <2>1, StartTyped, Zenon DEF FetchParent
  <2>3. \E c : Becomes(h, c)
    BY <1>4, <1>p, GoToIs, AnsweredIs, Zenon DEF FetchParent, Return
  <2>4. lock' = Free \/ lock' = h
    BY <1>4, Zenon DEF FetchParent, Return
  <2>5. UNCHANGED execVars /\ UNCHANGED hdVars /\ UNCHANGED badPoSHeaders
    BY <1>4, Zenon DEF FetchParent
  <2>6. CallOK'
    BY <2>3, <2>4, CallTyped, Zenon
  <2> QED
    BY <2>2, <2>5, <2>6, TypeFrame, Zenon DEF Groups
<1>5. CASE HaveParent(h)
  <2>1. \E c : Becomes(h, c)
    BY <1>5, <1>p, GoToIs, Zenon DEF HaveParent
  <2> QED
    BY <1>5, <2>1, OnlyCall, Zenon DEF HaveParent
<1>6. CASE FetchHead(h)
  <2>1. DownOK'
    BY <1>6, <1>b, StartTyped, Zenon DEF FetchHead
  <2>2. \E c : Becomes(h, c)
    BY <1>6, AnsweredIs, Zenon DEF FetchHead, Return
  <2>3. lock' = Free /\ UNCHANGED execVars /\ UNCHANGED hdVars /\ UNCHANGED badPoSHeaders
    BY <1>6, Zenon DEF FetchHead, Return
  <2>4. CallOK'
    BY <2>2, <2>3, CallTyped, Zenon
  <2> QED
    BY <2>1, <2>3, <2>4, TypeFrame, Zenon DEF Groups
<1>7. CASE TryUpdate(h) \/ TryValidate(h)
  <2>1. \E c : Becomes(h, c)
    BY <1>7, <1>p, GoToIs, AnsweredIs, Zenon DEF TryUpdate, TryValidate, Return
  <2>2. lock' = lock \/ lock' = Free \/ lock' = h
    BY <1>7, Zenon DEF TryUpdate, TryValidate, Return
  <2>3. /\ UNCHANGED <<known, td, head, pending>> /\ (semaphore' = h \/ semaphore' = semaphore)
        /\ UNCHANGED downloaderVars /\ UNCHANGED hdVars /\ UNCHANGED badPoSHeaders
    BY <1>7, Zenon DEF TryUpdate, TryValidate, dbVars
  <2>4. DbOK'
    BY <2>3, TypeGroups, Zenon DEF DbOK
  <2>5. CallOK'
    BY <2>1, <2>2, CallTyped, Zenon
  <2> QED
    BY <2>3, <2>4, <2>5, TypeFrame, Zenon DEF Groups
<1>8. CASE WaitSynced(h)
  <2>1. \E c : Becomes(h, c)
    <3>1. CASE call' = [call EXCEPT ![h].at = "verify", ![h].downloaded = TRUE]
      <4> DEFINE c == [call[h] EXCEPT !.at = "verify", !.downloaded = TRUE]
      <4>1. c \in Call
        BY <1>p, CallIs, Zenon DEF Call
      <4>2. call' = [call EXCEPT ![h] = c]
        <5>1. call \in [Handlers -> Call]
          BY Zenon DEF TypeOK
        <5> QED
          BY <3>1, <5>1, Zenon
      <4> QED
        BY <4>1, <4>2, CallSet, Zenon
    <3> QED
      BY <1>8, <3>1, AnsweredIs, Zenon DEF WaitSynced, Return
  <2> QED
    BY <1>8, <2>1, OnlyCall, Zenon DEF WaitSynced, Return
<1>9. CASE Insert(h)
  <2>1. InsertBlocks({call[h].block}) /\ UNCHANGED <<semaphore, pending>>
        /\ UNCHANGED downloaderVars /\ UNCHANGED hdVars /\ UNCHANGED badPoSHeaders
    BY <1>9, Zenon DEF Insert
  <2>2. DbOK'
    <3>1. {call[h].block} \subseteq Blocks
      BY <1>b, Zenon
    <3> QED
      BY <2>1, <3>1, InsertTyped, Zenon
  <2>3. \/ \E answer \in {"INVALID", "ACCEPTED"} : Return(h, answer, NoBlock)
        \/ GoTo(h, "verify") /\ UNCHANGED lock
    BY <1>9, Zenon DEF Insert
  <2>4. \E c : Becomes(h, c)
    BY <2>3, <1>p, GoToIs, AnsweredIs, Zenon DEF Return
  <2>5. CallOK'
    BY <2>3, <2>4, CallTyped, Zenon DEF Return
  <2> QED
    BY <2>1, <2>2, <2>5, TypeFrame, Zenon DEF Groups
<1>10. CASE Validate(h)
  <2> DEFINE b == call[h].block
             ans(v) == IF call[h].downloaded THEN StatusAfterDownload(v.status)
                       ELSE EngineStatus(v.status)
             S == IF call[h].downloaded THEN {} ELSE {b}
  <2>1. PICK v \in ValidateChain(b) :
          /\ Validated(v, S)
          /\ IF v.status = "MissingChain" THEN StartDownloading(v.missing, b)
             ELSE UNCHANGED downloaderVars
          /\ Return(h, ans(v), v.valid)
    BY <1>10, Zenon DEF Validate
  <2>2. b \in Blocks
    BY <1>b
  <2> HIDE DEF b, S
  <2>3. DbOK' /\ BadOK'
    BY <2>1, <2>2, ValidatedTyped, Zenon
  <2>4. /\ v.status \in {"Success", "MissingSegment", "TooFarAway", "MissingChain",
                         "BadBlock", "Error"}
        /\ v.valid \in Blocks \cup {0, NoBlock}
        /\ v.status = "MissingChain" => v.missing \in Blocks
    BY <2>2, VerdictIs, Zenon
  <2>5. DownOK'
    BY <2>1, <2>2, <2>4, StartTyped, TypeFrame, Zenon
  <2>6. ans(v) \in {"none", "VALID", "INVALID", "SYNCING", "ACCEPTED", "ERROR"}
    BY <2>4, AnswersTyped
  <2> HIDE DEF ans
  <2>7. \E c : Becomes(h, c)
    BY <2>1, <2>4, <2>6, AnsweredIs, Zenon DEF Return
  <2>8. CallOK'
    BY <2>1, <2>7, CallTyped, Zenon DEF Return
  <2>9. UNCHANGED hdVars
    BY <1>10, Zenon DEF Validate
  <2> QED
    BY <2>3, <2>5, <2>8, <2>9, TypeFrame, Zenon DEF Groups
<1>11. CASE Refuse(h)
  <2>1. \E answer \in {"ERROR", "VALID", "ACCEPTED", "INVALID"}, valid \in {NoBlock, call[h].block} :
          Return(h, answer, valid)
    BY <1>11, Zenon DEF Refuse
  <2>2. \E c : Becomes(h, c)
    BY <1>b, <2>1, AnsweredIs, Zenon DEF Return
  <2>3. CallOK'
    BY <2>1, <2>2, CallTyped, Zenon DEF Return
  <2>4. semaphore' = Free /\ UNCHANGED <<known, td, head, pending>>
        /\ UNCHANGED downloaderVars /\ UNCHANGED hdVars
    BY <1>11, Zenon DEF Refuse, dbVars
  <2>5. DbOK'
    BY <2>4, TypeGroups, Zenon DEF DbOK
  <2>6. BadOK'
    <3>1. CASE UNCHANGED badPoSHeaders
      BY <3>1, TypeFrame, Zenon
    <3>2. CASE /\ Invalid(call[h].block)
               /\ ReportBadHeaderPoS({FirstBad(call[h].block)}, FirstBad(call[h].block) - 1)
      <4>1. FirstBad(call[h].block) \in Blocks
        BY <1>b, <3>2, FirstBadIs, Zenon
      <4>2. FirstBad(call[h].block) - 1 \in Blocks \cup {0}
        BY <4>1, EngineAssumption DEF Blocks
      <4> QED
        BY <3>2, <4>2, ReportTyped, Zenon
    <3> QED
      BY <1>11, <3>1, <3>2, Zenon DEF Refuse
  <2> QED
    BY <2>3, <2>4, <2>5, <2>6, TypeFrame, Zenon DEF Groups
<1>12. CASE Adopt(h)
  <2>1. \/ head' = call[h].block /\ pending' = NoBlock /\ Return(h, "VALID", call[h].block)
        \/ head' = head /\ pending' = call[h].block /\ Return(h, "SYNCING", NoBlock)
    BY <1>12, Zenon DEF Adopt
  <2>2. \E c : Becomes(h, c)
    BY <1>b, <2>1, AnsweredIs, Zenon DEF Return
  <2>3. CallOK'
    BY <2>1, <2>2, CallTyped, Zenon DEF Return
  <2>4. semaphore' = Background /\ UNCHANGED <<known, td>> /\ UNCHANGED downloaderVars
        /\ UNCHANGED hdVars /\ UNCHANGED badPoSHeaders
    BY <1>12, Zenon DEF Adopt
  <2>5. call[h].block \in 0..N
    BY <1>b, BlockIs
  <2>6. DbOK'
    BY <1>b, <2>1, <2>4, <2>5, TypeGroups, Zenon DEF DbOK
  <2> QED
    BY <2>3, <2>4, <2>6, TypeFrame, Zenon DEF Groups
<1> QED
  BY <1>1, <1>2, <1>3, <1>4, <1>5, <1>6, <1>7, <1>8, <1>9, <1>10, <1>11, <1>12, Zenon
  DEF Handle, Locks

(* A download without a tip ends with its blocks.                          *)
TipInv == download.at \in {"tip", "verify", "validate"} => download.tip # NoBlock

LEMMA DownloaderTyped ==
  ASSUME TypeOK, TipInv, Download \/ PoSLoop \/ FinishForkChoice \/ Stop
                         \/ \E lo \in Blocks : ProcessHeadersPOS(lo)
  PROVE  Groups'
<1>g. DbOK /\ DownOK /\ HdOK /\ BadOK /\ CallOK
  BY TypeGroups, Zenon
<1>e. \A place \in {"collector", "start", "wait", "load", "tip", "verify", "validate"} :
        DownloadGoesTo(place) => DownOK'
  BY DownloadTyped, Zenon
<1>i. DownloadEnds("Idle") \/ DownloadEnds("Synced") => DownOK'
  BY DownloadTyped, Zenon
<1>d. download.hash \in Blocks \cup {NoBlock} /\ download.tip \in Blocks \cup {NoBlock}
      /\ headersCollector.headers \subseteq Blocks /\ headersCollector.open \in BOOLEAN
      /\ posAnchor.hash \in Blocks \cup {NoBlock} /\ posAnchor.timeouts \in 0..MaxTimeouts
  BY <1>g, Zenon DEF DownOK, HdOK
<1>m. MaxTimeouts \in Nat /\ MaxTimeouts # 0 /\ 0 \in 0..MaxTimeouts
  BY EngineAssumption
<1>1. CASE SetHeaderToDownloadPoS
  <2>1. DownOK'
    BY <1>1, <1>e, <1>i, Zenon DEF SetHeaderToDownloadPoS
  <2>2. UNCHANGED <<posStatus, headersCollector>>
        /\ (posAnchor' = posAnchor \/ posAnchor' = [hash |-> download.hash, timeouts |-> 0])
    BY <1>1, Zenon DEF SetHeaderToDownloadPoS
  <2>3. HdOK'
    <3>1. [hash |-> download.hash, timeouts |-> 0]
            \in [hash : Blocks \cup {NoBlock}, timeouts : 0..MaxTimeouts]
      BY <1>d, <1>m
    <3> QED
      BY <1>g, <2>2, <3>1, Zenon DEF HdOK
  <2>4. UNCHANGED execVars /\ UNCHANGED <<call, lock>> /\ UNCHANGED badPoSHeaders
    BY <1>1, Zenon DEF SetHeaderToDownloadPoS
  <2> QED
    BY <2>1, <2>3, <2>4, TypeFrame, Zenon DEF Groups
<1>2. CASE SetHeadersCollector
  <2>1. DownOK'
    BY <1>2, <1>e, Zenon DEF SetHeadersCollector
  <2>2. HdOK'
    BY <1>2, <1>g, Zenon DEF SetHeadersCollector, HdOK
  <2>3. UNCHANGED execVars /\ UNCHANGED <<call, lock>> /\ UNCHANGED badPoSHeaders
    BY <1>2, Zenon DEF SetHeadersCollector
  <2> QED
    BY <2>1, <2>2, <2>3, TypeFrame, Zenon DEF Groups
<1>3. CASE SetPosStatus
  <2>1. DownOK'
    BY <1>3, <1>e, Zenon DEF SetPosStatus
  <2>2. HdOK'
    BY <1>3, <1>g, Zenon DEF SetPosStatus, HdOK
  <2>3. UNCHANGED execVars /\ UNCHANGED <<call, lock>> /\ UNCHANGED badPoSHeaders
    BY <1>3, Zenon DEF SetPosStatus
  <2> QED
    BY <2>1, <2>2, <2>3, TypeFrame, Zenon DEF Groups
<1>4. CASE WaitForEndOfHeadersDownload
  <2>1. DownOK'
    BY <1>4, <1>e, <1>i, Zenon DEF WaitForEndOfHeadersDownload
  <2>2. HdOK'
    BY <1>4, <1>g, Zenon DEF WaitForEndOfHeadersDownload, HdOK
  <2>3. UNCHANGED execVars /\ UNCHANGED <<call, lock>> /\ UNCHANGED badPoSHeaders
    BY <1>4, Zenon DEF WaitForEndOfHeadersDownload
  <2> QED
    BY <2>1, <2>2, <2>3, TypeFrame, Zenon DEF Groups
<1>5. CASE LoadBlocks
  <2>1. DownOK'
    BY <1>5, <1>e, <1>i, Zenon DEF LoadBlocks
  <2>2. UNCHANGED <<posStatus, posAnchor>>
        /\ headersCollector' = [headersCollector EXCEPT !.headers = {}]
    BY <1>5, Zenon DEF LoadBlocks
  <2>3. HdOK'
    BY <1>g, <2>2, Zenon DEF HdOK
  <2>4. InsertBlocks(headersCollector.headers) /\ UNCHANGED <<semaphore, pending>>
        /\ UNCHANGED <<call, lock>> /\ UNCHANGED badPoSHeaders
    BY <1>5, Zenon DEF LoadBlocks
  <2>5. DbOK'
    BY <1>d, <2>4, InsertTyped, Zenon
  <2> QED
    BY <2>1, <2>3, <2>4, <2>5, TypeFrame, Zenon DEF Groups
<1>6. CASE InsertTip
  <2>1. DownOK'
    BY <1>6, <1>e, Zenon DEF InsertTip
  <2>2. InsertBlocks({download.tip}) /\ UNCHANGED <<semaphore, pending>>
        /\ UNCHANGED <<call, lock>> /\ UNCHANGED badPoSHeaders /\ UNCHANGED hdVars
    BY <1>6, Zenon DEF InsertTip
  <2>3. {download.tip} \subseteq Blocks
    BY <1>6, <1>d DEF InsertTip, DownloadAt, TipInv
  <2>4. DbOK'
    BY <2>2, <2>3, InsertTyped, Zenon
  <2> QED
    BY <2>1, <2>2, <2>4, TypeFrame, Zenon DEF Groups
<1>7. CASE StopDownload
  <2>1. DownOK'
    BY <1>7, <1>i, Zenon DEF StopDownload
  <2>2. UNCHANGED execVars /\ UNCHANGED hdVars /\ UNCHANGED <<call, lock>> /\ UNCHANGED badPoSHeaders
    BY <1>7, Zenon DEF StopDownload
  <2> QED
    BY <2>1, <2>2, TypeFrame, Zenon DEF Groups
<1>8. CASE TryValidateTip
  <2>1. DownOK'
    BY <1>8, <1>e, <1>i, Zenon DEF TryValidateTip
  <2>2. /\ UNCHANGED <<known, td, head, pending>>
        /\ semaphore' = Downloader \/ semaphore' = semaphore
        /\ UNCHANGED <<call, lock>> /\ UNCHANGED badPoSHeaders /\ UNCHANGED hdVars
    BY <1>8, Zenon DEF TryValidateTip, dbVars
  <2>3. DbOK'
    BY <1>g, <2>2, Zenon DEF DbOK
  <2> QED
    BY <2>1, <2>2, <2>3, TypeFrame, Zenon DEF Groups
<1>9. CASE ValidateTip
  <2>1. download.tip \in Blocks
    BY <1>9, <1>d DEF ValidateTip, DownloadAt, TipInv
  <2>2. PICK v \in ValidateChain(download.tip) :
          /\ Validated(v, {download.tip})
          /\ DownloadEnds("Synced") \/ DownloadEnds("Idle")
    BY <1>9, Zenon DEF ValidateTip
  <2>3. DbOK' /\ BadOK'
    BY <2>1, <2>2, ValidatedTyped, Zenon
  <2>4. DownOK'
    BY <1>i, <2>2, Zenon
  <2>5. UNCHANGED <<call, lock>> /\ UNCHANGED hdVars
    BY <1>9, Zenon DEF ValidateTip
  <2> QED
    BY <2>3, <2>4, <2>5, TypeFrame, Zenon DEF Groups
<1>10. CASE RequestHeaders
  <2>1. posAnchor.timeouts + 1 \in 0..MaxTimeouts
    BY <1>10, <1>d, <1>m DEF RequestHeaders
  <2>2. UNCHANGED <<posStatus, headersCollector>>
        /\ posAnchor' = [posAnchor EXCEPT !.timeouts = posAnchor.timeouts + 1]
    BY <1>10, Zenon DEF RequestHeaders
  <2>3. HdOK'
    BY <1>g, <2>1, <2>2, Zenon DEF HdOK
  <2>4. UNCHANGED execVars /\ UNCHANGED downloaderVars /\ UNCHANGED <<call, lock>>
        /\ UNCHANGED badPoSHeaders
    BY <1>10, Zenon DEF RequestHeaders
  <2> QED
    BY <2>3, <2>4, TypeFrame, Zenon DEF Groups
<1>11. CASE CleanUpPoSDownload
  <2>1. HdOK'
    BY <1>11, <1>m DEF CleanUpPoSDownload, HdOK, NoAnchor, NoCollector
  <2>2. UNCHANGED execVars /\ UNCHANGED downloaderVars /\ UNCHANGED <<call, lock>>
        /\ UNCHANGED badPoSHeaders
    BY <1>11, Zenon DEF CleanUpPoSDownload
  <2> QED
    BY <2>1, <2>2, TypeFrame, Zenon DEF Groups
<1>12. CASE FinishForkChoice
  <2>1. /\ head' = head \/ (head' = pending /\ pending # NoBlock)
        /\ semaphore' = Free /\ pending' = NoBlock /\ UNCHANGED <<known, td>>
        /\ UNCHANGED downloaderVars /\ UNCHANGED hdVars /\ UNCHANGED <<call, lock>>
        /\ UNCHANGED badPoSHeaders
    BY <1>12, Zenon DEF FinishForkChoice
  <2>2. pending # NoBlock => pending \in 0..N
    BY <1>g, BlockIs DEF DbOK
  <2>3. DbOK'
    BY <1>g, <2>1, <2>2, Zenon DEF DbOK
  <2> QED
    BY <2>1, <2>3, TypeFrame, Zenon DEF Groups
<1>13. CASE Stop
  BY <1>13, TypeFrame, Zenon DEF Stop, Groups
<1>14. ASSUME NEW lo \in Blocks, ProcessHeadersPOS(lo) PROVE Groups'
  <2> DEFINE a == posAnchor.hash
             low == IF Joins(a, lo) = {} THEN lo ELSE Max(Joins(a, lo))
  <2>1. /\ lo <= a
        /\ headersCollector' = [headersCollector EXCEPT
                                  !.headers = headersCollector.headers \cup (low..a)]
        /\ \/ posAnchor' = NoAnchor /\ posStatus' = "Synced"
           \/ Joins(a, lo) = {} /\ posAnchor' = [hash |-> lo - 1, timeouts |-> 0]
              /\ UNCHANGED posStatus
        /\ UNCHANGED execVars /\ UNCHANGED downloaderVars /\ UNCHANGED <<call, lock>>
        /\ UNCHANGED badPoSHeaders
    BY <1>14, Zenon DEF ProcessHeadersPOS
  <2> HIDE DEF a
  <2>2. a \in Blocks /\ a \in Nat /\ lo \in Nat /\ lo >= 1 /\ a <= N /\ N \in Nat
    BY <1>d, <2>1, EngineAssumption DEF Blocks, NoBlock, a
  <2>3. low \in lo..a
    <3>1. CASE Joins(a, lo) = {}
      BY <2>1, <2>2, <3>1
    <3>2. CASE Joins(a, lo) # {}
      <4>1. Joins(a, lo) \in SUBSET 0..N
        BY <2>2 DEF Joins
      <4>2. Max(Joins(a, lo)) \in Joins(a, lo)
        BY <2>2, <3>2, <4>1, GreatestIs, Zenon
      <4> QED
        BY <3>2, <4>2 DEF Joins
    <3> QED
      BY <3>1, <3>2
  <2> HIDE DEF low
  <2>4. headersCollector.headers \cup (low..a) \in SUBSET Blocks
    BY <1>d, <2>2, <2>3 DEF Blocks
  <2>5. Joins(a, lo) = {} => lo - 1 \in Blocks
    <3> SUFFICES ASSUME Joins(a, lo) = {} PROVE lo - 1 \in Blocks
      OBVIOUS
    <3>1. ~Has(lo - 1)
      BY <2>1, <2>2 DEF Joins
    <3> QED
      BY <2>2, <3>1 DEF Has, Blocks
  <2>6. NoAnchor \in [hash : Blocks \cup {NoBlock}, timeouts : 0..MaxTimeouts]
    BY <1>m DEF NoAnchor
  <2>7. posAnchor' \in [hash : Blocks \cup {NoBlock}, timeouts : 0..MaxTimeouts]
    <3>1. Joins(a, lo) = {} => [hash |-> lo - 1, timeouts |-> 0]
            \in [hash : Blocks \cup {NoBlock}, timeouts : 0..MaxTimeouts]
      BY <1>m, <2>5
    <3> QED
      BY <2>1, <2>6, <3>1, Zenon
  <2>8. headersCollector' \in [open : BOOLEAN, headers : SUBSET Blocks]
    BY <1>g, <2>1, <2>4, Zenon DEF HdOK
  <2>9. HdOK'
    BY <1>g, <2>1, <2>7, <2>8, Zenon DEF HdOK
  <2> QED
    BY <2>1, <2>9, TypeFrame, Zenon DEF Groups
<1> QED
  BY <1>1, <1>2, <1>3, <1>4, <1>5, <1>6, <1>7, <1>8, <1>9, <1>10, <1>11, <1>12, <1>13,
     <1>14, Zenon
  DEF Download, PoSLoop

(* The handlers change the download only to start one.                     *)
LEMMA HandlersDownload ==
  ASSUME NEW h \in Handlers, Begin(h) \/ Handle(h)
  PROVE  UNCHANGED downloaderVars \/ (download'.at = "schedule" /\ status' = "Syncing")
<1>1. CASE Begin(h)
  BY <1>1, Zenon DEF Begin, Repeated, PreviouslyBad, Quick
<1>2. ASSUME NEW hash, NEW tip, StartDownloading(hash, tip)
      PROVE  UNCHANGED downloaderVars \/ (download'.at = "schedule" /\ status' = "Syncing")
  BY <1>2 DEF StartDownloading
<1>3. CASE FetchParent(h) \/ FetchHead(h) \/ Validate(h)
  BY <1>2, <1>3, Zenon DEF FetchParent, FetchHead, Validate
<1>4. CASE /\ Handle(h)
           /\ ~(FetchParent(h) \/ FetchHead(h) \/ Validate(h))
  BY <1>4, Zenon DEF Handle, WaitDownload, WaitReady, Locks, ReturnQuick, HaveParent,
     TryUpdate, WaitSynced, Insert, TryValidate, Refuse, Adopt
<1> QED
  BY <1>1, <1>3, <1>4, Zenon

LEMMA TypesStep == TypeOK /\ TipInv /\ [Next]_vars => TypeOK' /\ TipInv'
<1> SUFFICES ASSUME TypeOK, TipInv, [Next]_vars PROVE TypeOK' /\ TipInv'
  OBVIOUS
<1>1. kind' \in Chains
  BY Fixed, Zenon DEF TypeOK
<1>2. stopping' = stopping \/ stopping' = TRUE
  BY Fixed, Zenon
<1>3. stopping' \in BOOLEAN
  BY <1>2, Zenon DEF TypeOK
<1>4. Groups'
  <2>1. CASE UNCHANGED vars
    BY <2>1, TypeFrame, Zenon DEF vars, Groups
  <2> QED
    BY <2>1, BeginTyped, HandleTyped, DownloaderTyped, Zenon DEF Next
<1>5. TypeOK'
  BY <1>1, <1>3, <1>4, Zenon DEF Groups, TypeOK, DbOK, DownOK, HdOK, BadOK, CallOK
<1>6. TipInv'
  <2>1. CASE UNCHANGED downloaderVars
    BY <2>1 DEF TipInv, downloaderVars
  <2>2. CASE download'.at = "schedule"
    BY <2>2 DEF TipInv
  <2>3. CASE Download
    <3>t. download \in [at : {"off", "schedule", "collector", "start", "wait", "load", "tip",
                               "verify", "validate"},
                         hash : Blocks \cup {NoBlock}, tip : Blocks \cup {NoBlock}]
      BY Zenon DEF TypeOK
    <3>1. ASSUME NEW place, DownloadGoesTo(place)
          PROVE  download'.at = place /\ download'.tip = download.tip
      BY <3>t, <3>1 DEF DownloadGoesTo
    <3>2. ASSUME NEW st, DownloadEnds(st) PROVE TipInv'
      BY <3>2 DEF DownloadEnds, TipInv
    <3>3. CASE LoadBlocks
      <4>1. CASE download.tip # NoBlock /\ DownloadGoesTo("tip")
        BY <3>1, <4>1 DEF TipInv
      <4> QED
        BY <3>2, <3>3, <4>1, Zenon DEF LoadBlocks
    <3>4. CASE InsertTip \/ TryValidateTip
      <4>1. download.tip # NoBlock
        BY <3>4 DEF InsertTip, TryValidateTip, DownloadAt, TipInv
      <4>2. CASE DownloadGoesTo("verify") \/ DownloadGoesTo("validate")
        BY <3>1, <4>1, <4>2 DEF TipInv
      <4> QED
        BY <3>2, <3>4, <4>2, Zenon DEF InsertTip, TryValidateTip
    <3>5. CASE SetHeaderToDownloadPoS \/ SetHeadersCollector \/ SetPosStatus
               \/ WaitForEndOfHeadersDownload
      <4>1. ASSUME NEW place \in {"collector", "start", "wait", "load"}, DownloadGoesTo(place)
            PROVE  TipInv'
        BY <3>1, <4>1 DEF TipInv
      <4> QED
        BY <3>2, <3>5, <4>1, Zenon DEF SetHeaderToDownloadPoS, SetHeadersCollector, SetPosStatus,
           WaitForEndOfHeadersDownload
    <3>6. CASE StopDownload \/ ValidateTip
      BY <3>2, <3>6, Zenon DEF StopDownload, ValidateTip
    <3> QED
      BY <2>3, <3>3, <3>4, <3>5, <3>6, Zenon DEF Download
  <2>4. CASE PoSLoop \/ FinishForkChoice \/ Stop \/ (\E lo \in Blocks : ProcessHeadersPOS(lo))
             \/ UNCHANGED vars
    BY <2>1, <2>4, Zenon DEF PoSLoop, RequestHeaders, CleanUpPoSDownload, FinishForkChoice, Stop,
       ProcessHeadersPOS, vars
  <2> QED
    BY <2>1, <2>2, <2>3, <2>4, HandlersDownload, Zenon DEF Next
<1> QED
  BY <1>5, <1>6

-----------------------------------------------------------------------------
(* What a step of a handler may make of its call.                          *)
Sound(h, c) ==
  /\ Becomes(h, c)
  /\ ~stopping /\ BadRight /\ InvalidRight(call[h]) => InvalidRight(c)
  /\ HeadInv /\ (call[h].at = "wait" => Waiting(h)) /\ ValidRight(call[h]) => ValidRight(c)
  /\ c.at \in UnderLock => lock' = h \/ (lock' = lock /\ call[h].at \in UnderLock)
  /\ c.at = "wait" => FetchParent(h) /\ status # "Syncing"

Moved(h, place) == [call[h] EXCEPT !.at = place]

LEMMA MovedIs ==
  ASSUME TypeOK, NEW h \in Handlers, NEW place
  PROVE  /\ Moved(h, place).at = place
         /\ Moved(h, place).block = call[h].block
         /\ Moved(h, place).downloaded = call[h].downloaded
         /\ Moved(h, place).answer = call[h].answer
         /\ Moved(h, place).valid = call[h].valid
<1>1. call[h] \in Call
  BY CallIs, Zenon
<1> QED
  BY <1>1 DEF Moved, Call

(* To go on is sound, if the lock is held where it has to be.              *)
LEMMA MoveSound ==
  ASSUME TypeOK, NEW h \in Handlers, NEW place \in Places, GoTo(h, place),
         place \in UnderLock => lock' = h \/ (lock' = lock /\ call[h].at \in UnderLock),
         place = "wait" => FetchParent(h) /\ status # "Syncing"
  PROVE  Sound(h, Moved(h, place))
<1>1. Becomes(h, Moved(h, place))
  BY GoToIs, Zenon DEF Moved
<1> DEFINE c == Moved(h, place)
<1>2. /\ c.at = place /\ c.block = call[h].block /\ c.downloaded = call[h].downloaded
      /\ c.answer = call[h].answer /\ c.valid = call[h].valid
  BY MovedIs, Zenon
<1> HIDE DEF c
<1>3. (InvalidRight(call[h]) => InvalidRight(c)) /\ (ValidRight(call[h]) => ValidRight(c))
  BY <1>2, Zenon DEF InvalidRight, ValidRight
<1> QED
  BY <1>1, <1>2, <1>3, Zenon DEF Sound, c

(* So is an answer that is right about the block.                          *)
LEMMA AnswerSound ==
  ASSUME TypeOK, NEW h \in Handlers,
         NEW answer \in {"none", "VALID", "INVALID", "SYNCING", "ACCEPTED", "ERROR"},
         NEW valid \in Blocks \cup {0, NoBlock}, Answered(h, answer, valid),
         ~stopping /\ BadRight /\ InvalidRight(call[h]) /\ answer = "INVALID" =>
           /\ Invalid(call[h].block)
           /\ valid # NoBlock => LastValid(valid, call[h].block),
         HeadInv /\ ValidRight(call[h]) /\ answer = "VALID" => ~Invalid(call[h].block)
  PROVE  Sound(h, Reply(h, answer, valid))
<1>1. Becomes(h, Reply(h, answer, valid))
  BY AnsweredIs, Zenon
<1> DEFINE c == Reply(h, answer, valid)
<1>2. /\ c.at = "answered" /\ c.block = call[h].block /\ c.downloaded = FALSE
      /\ c.answer = answer /\ c.valid = valid
  BY DEF Reply
<1> HIDE DEF c
<1>3. ~stopping /\ BadRight /\ InvalidRight(call[h]) => InvalidRight(c)
  BY <1>2, Zenon DEF InvalidRight
<1>4. HeadInv /\ ValidRight(call[h]) => ValidRight(c)
  BY <1>2, Zenon DEF ValidRight
<1>5. c.at \notin UnderLock /\ c.at # "wait"
  BY <1>2 DEF UnderLock
<1> QED
  BY <1>1, <1>3, <1>4, <1>5, Zenon DEF Sound, c

LEMMA SyncingSound ==
  ASSUME TypeOK, NEW h \in Handlers, NEW answer \in {"SYNCING", "ACCEPTED", "ERROR"},
         Answered(h, answer, NoBlock)
  PROVE  \E c : Sound(h, c)
<1>1. answer # "VALID" /\ answer # "INVALID"
      /\ answer \in {"none", "VALID", "INVALID", "SYNCING", "ACCEPTED", "ERROR"}
  OBVIOUS
<1> QED
  BY <1>1, AnswerSound, Zenon

LEMMA QuickSound ==
  ASSUME TypeOK, NEW h \in Handlers, QuickAnswer(h, "SYNCING")
  PROVE  \E c : Sound(h, c)
<1>1. CASE call[h].method = "newPayload"
  BY <1>1, SyncingSound, Zenon DEF QuickAnswer
<1>2. CASE call[h].method # "newPayload"
  <2> DEFINE c == [call[h] EXCEPT !.at = "lock", !.answer = "SYNCING"]
  <2>1. call' = [call EXCEPT ![h].at = "lock", ![h].answer = "SYNCING"]
    BY <1>2, Zenon DEF QuickAnswer
  <2>2. call[h] \in Call /\ call \in [Handlers -> Call]
    BY CallIs, Zenon DEF TypeOK
  <2>3. call' = [call EXCEPT ![h] = c]
    BY <2>1, <2>2, Zenon
  <2>4. c \in Call /\ c.at = "lock" /\ c.block = call[h].block /\ c.answer = "SYNCING"
        /\ c.downloaded = call[h].downloaded
    BY <2>2, PlacesAre, Zenon DEF Call
  <2> HIDE DEF c
  <2>5. Becomes(h, c)
    BY <2>3, <2>4, CallSet, Zenon
  <2>6. InvalidRight(c) /\ (ValidRight(call[h]) => ValidRight(c))
    BY <2>4 DEF InvalidRight, ValidRight
  <2>7. c.at \notin UnderLock /\ c.at # "wait"
    BY <2>4 DEF UnderLock
  <2> QED
    BY <2>5, <2>6, <2>7, Zenon DEF Sound
<1> QED
  BY <1>1, <1>2, Zenon

(* A canonical block is valid.                                             *)
LEMMA CanonicalValid ==
  ASSUME TypeOK, HeadInv, NEW b \in Blocks, IsCanonical(b)
  PROVE  ~Invalid(b)
<1>1. b \in Nat /\ head \in Nat /\ b <= head
  BY BlockIs DEF TypeOK, IsCanonical
<1> QED
  BY <1>1, InvalidAbove DEF HeadInv

LEMMA HandleSound ==
  ASSUME TypeOK, NEW h \in Handlers, Handle(h)
  PROVE  \E c : Sound(h, c)
<1>b. call[h].block \in Blocks /\ call[h].valid \in Blocks \cup {0, NoBlock}
      /\ call[h].answer \in {"none", "VALID", "INVALID", "SYNCING", "ACCEPTED", "ERROR"}
  BY CallIs, Zenon
<1>p. \A p \in {"answered", "downloading", "ready", "lock", "wait", "verify", "insert", "accept",
                "validate", "update"} : p \in Places
  BY PlacesAre, Zenon
<1>u. /\ \A p \in {"answered", "downloading", "ready", "lock"} : p \notin UnderLock /\ p # "wait"
      /\ \A p \in {"verify", "insert", "accept", "validate", "update"} : p \in UnderLock /\ p # "wait"
  BY DEF UnderLock
<1>n. NoBlock \in Blocks \cup {0, NoBlock}
  OBVIOUS
<1>1. CASE WaitDownload(h) \/ WaitReady(h)
  BY <1>1, <1>p, <1>u, MoveSound, QuickSound, Zenon DEF WaitDownload, WaitReady
<1>2. CASE ReturnQuick(h)
  <2>1. Answered(h, call[h].answer, call[h].valid)
    BY <1>2, Zenon DEF ReturnQuick, Return
  <2>2. InvalidRight(call[h]) /\ call[h].answer = "INVALID" =>
          /\ Invalid(call[h].block)
          /\ call[h].valid # NoBlock => LastValid(call[h].valid, call[h].block)
    BY Zenon DEF InvalidRight
  <2>3. ValidRight(call[h]) /\ call[h].answer = "VALID" => ~Invalid(call[h].block)
    BY Zenon DEF ValidRight
  <2> QED
    BY <1>b, <2>1, <2>2, <2>3, AnswerSound, Zenon
<1>3. CASE FetchParent(h)
  <2>1. CASE status = "Syncing"
    BY <1>3, <2>1, SyncingSound, Zenon DEF FetchParent, Return
  <2>2. CASE status # "Syncing"
    BY <1>3, <1>p, <2>2, MoveSound, Zenon DEF FetchParent
  <2> QED
    BY <2>1, <2>2
<1>4. CASE HaveParent(h)
  BY <1>4, <1>p, <1>u, MoveSound, Zenon DEF HaveParent
<1>5. CASE FetchHead(h)
  BY <1>5, SyncingSound, Zenon DEF FetchHead, Return
<1>6. CASE TryUpdate(h)
  BY <1>6, <1>p, <1>u, MoveSound, SyncingSound, Zenon DEF TryUpdate, Return
<1>7. CASE TryValidate(h)
  <2>1. call[h].at \in UnderLock
    BY <1>7 DEF TryValidate, At, UnderLock
  <2> QED
    BY <1>7, <1>p, <1>u, <2>1, MoveSound, SyncingSound, Zenon DEF TryValidate, Return
<1>8. CASE WaitSynced(h)
  <2>1. CASE status = "Synced" /\ UNCHANGED lock
             /\ call' = [call EXCEPT ![h].at = "verify", ![h].downloaded = TRUE]
    <3> DEFINE c == [call[h] EXCEPT !.at = "verify", !.downloaded = TRUE]
    <3>1. call[h] \in Call /\ call \in [Handlers -> Call]
      BY CallIs, Zenon DEF TypeOK
    <3>2. call' = [call EXCEPT ![h] = c]
      BY <2>1, <3>1, Zenon
    <3>3. c \in Call
      BY <1>p, <3>1, Zenon DEF Call
    <3>4. c.at = "verify" /\ c.block = call[h].block /\ c.answer = call[h].answer
          /\ c.valid = call[h].valid
      BY <3>1 DEF Call
    <3> HIDE DEF c
    <3>5. Becomes(h, c)
      BY <3>2, <3>3, CallSet, Zenon
    <3>6. InvalidRight(call[h]) => InvalidRight(c)
      BY <3>4, Zenon DEF InvalidRight
    <3>7. Waiting(h) => ValidRight(c)
      BY <2>1, <3>4 DEF Waiting, ValidRight
    <3>8. call[h].at = "wait" /\ call[h].at \in UnderLock /\ lock' = lock /\ c.at # "wait"
      BY <1>8, <2>1, <3>4 DEF WaitSynced, At, UnderLock
    <3> QED
      BY <3>5, <3>6, <3>7, <3>8, Zenon DEF Sound
  <2> QED
    BY <1>8, <2>1, SyncingSound, Zenon DEF WaitSynced, Return
<1>9. CASE Insert(h)
  <2>1. CASE kind[call[h].block] = "oversize" /\ Answered(h, "INVALID", NoBlock)
    <3>1. Invalid(call[h].block)
      BY <1>b, <2>1, BlockIs DEF Invalid, Defective
    <3> QED
      BY <1>n, <2>1, <3>1, AnswerSound, Zenon
  <2>2. CASE Answered(h, "ACCEPTED", NoBlock)
    BY <2>2, SyncingSound, Zenon
  <2>3. CASE GoTo(h, "verify") /\ UNCHANGED lock
    <3>1. call[h].at \in UnderLock
      BY <1>9 DEF Insert, At, UnderLock
    <3> QED
      BY <1>p, <1>u, <2>3, <3>1, MoveSound, Zenon
  <2> QED
    BY <1>9, <2>1, <2>2, <2>3, Zenon DEF Insert, Return
<1>10. CASE Validate(h)
  <2> DEFINE b == call[h].block
             ans(v) == IF call[h].downloaded THEN StatusAfterDownload(v.status)
                       ELSE EngineStatus(v.status)
  <2>1. PICK v \in ValidateChain(b) : Answered(h, ans(v), v.valid)
    BY <1>10, Zenon DEF Validate, Return
  <2> HIDE DEF b
  <2>2. /\ v.status \in {"Success", "MissingSegment", "TooFarAway", "MissingChain",
                         "BadBlock", "Error"}
        /\ v.valid \in Blocks \cup {0, NoBlock}
        /\ v.status = "Success" => ~Invalid(b)
        /\ v.status = "BadBlock" /\ ~stopping => LastValid(v.valid, b)
    BY <1>b, VerdictIs, Zenon DEF b
  <2>3. ans(v) \in {"none", "VALID", "INVALID", "SYNCING", "ACCEPTED", "ERROR"}
    BY <2>2, AnswersTyped
  <2>4. ~stopping /\ ans(v) = "INVALID" => LastValid(v.valid, b) /\ Invalid(b)
    <3>1. ans(v) = "INVALID" => v.status = "BadBlock"
      BY <2>2, AnswersTyped
    <3>2. b \in Nat
      BY <1>b, BlockIs DEF b
    <3> QED
      BY <2>2, <3>1, <3>2, LastValidIs, Zenon
  <2>5. ValidRight(call[h]) /\ ans(v) = "VALID" => ~Invalid(b)
    <3>1. CASE call[h].downloaded
      BY <3>1, Zenon DEF ValidRight, b
    <3>2. CASE ~call[h].downloaded
      <4>1. ans(v) = EngineStatus(v.status)
        BY <3>2, Zenon
      <4>2. ans(v) = "VALID" => v.status = "Success"
        BY <2>2, <4>1, AnswersTyped, Zenon
      <4> QED
        BY <2>2, <4>2, Zenon
    <3> QED
      BY <3>1, <3>2
  <2> HIDE DEF ans
  <2> QED
    BY <2>1, <2>2, <2>3, <2>4, <2>5, AnswerSound, Zenon DEF b
<1>11. CASE Refuse(h)
  <2>1. CASE Answered(h, "ERROR", NoBlock) \/ Answered(h, "ACCEPTED", NoBlock)
    BY <2>1, SyncingSound, Zenon
  <2>2. CASE IsCanonical(call[h].block) /\ Answered(h, "VALID", call[h].block)
    <3>1. HeadInv => ~Invalid(call[h].block)
      BY <1>b, <2>2, CanonicalValid, Zenon
    <3> QED
      BY <1>b, <2>2, <3>1, AnswerSound
  <2>3. CASE Invalid(call[h].block) /\ Answered(h, "INVALID", NoBlock)
    BY <1>n, <2>3, AnswerSound, Zenon
  <2> QED
    BY <1>11, <2>1, <2>2, <2>3, Zenon DEF Refuse, Return
<1>12. CASE Adopt(h)
  <2>1. ~Invalid(call[h].block)
    BY <1>12, Zenon DEF Adopt
  <2>2. CASE Answered(h, "VALID", call[h].block)
    BY <1>b, <2>1, <2>2, AnswerSound
  <2>3. CASE Answered(h, "SYNCING", NoBlock)
    BY <2>3, SyncingSound, Zenon
  <2> QED
    BY <1>12, <2>2, <2>3, Zenon DEF Adopt, Return
<1> QED
  BY <1>1, <1>2, <1>3, <1>4, <1>5, <1>6, <1>7, <1>8, <1>9, <1>10, <1>11, <1>12, Zenon
  DEF Handle, Locks

LEMMA BeginSound ==
  ASSUME TypeOK, NEW h \in Handlers, Begin(h)
  PROVE  \E c : Sound(h, c)
<1>0. ASSUME NEW b \in Blocks, NEW method \in Methods,
             NEW place \in {"answered", "lock", "downloading", "ready"},
             NEW answer \in {"none", "VALID", "INVALID"},
             NEW valid \in Blocks \cup {0, NoBlock},
             Began(h, method, b, place, answer, valid),
             ~stopping /\ BadRight /\ answer = "INVALID" => LastValid(valid, b),
             HeadInv /\ answer = "VALID" => ~Invalid(b)
      PROVE  \E c : Sound(h, c)
  <2> DEFINE c == Begun(method, b, place, answer, valid)
  <2>1. place \in Places /\ place \notin UnderLock /\ place # "wait"
        /\ answer \in {"none", "VALID", "INVALID", "SYNCING", "ACCEPTED", "ERROR"}
    BY <1>0 DEF Places, UnderLock
  <2>2. Becomes(h, c)
    BY <1>0, <2>1, BeganIs, Zenon
  <2>3. c.at = place /\ c.block = b /\ ~c.downloaded /\ c.answer = answer /\ c.valid = valid
    BY DEF Begun
  <2>4. b \in Nat
    BY BlockIs
  <2> HIDE DEF c
  <2>5. ~stopping /\ BadRight => InvalidRight(c)
    BY <1>0, <2>3, <2>4, LastValidIs, Zenon DEF InvalidRight
  <2>6. HeadInv => ValidRight(c)
    BY <1>0, <2>3, Zenon DEF ValidRight
  <2> QED
    BY <2>1, <2>2, <2>3, <2>5, <2>6, Zenon DEF Sound
<1>1. ASSUME NEW b \in Blocks, Repeated(h, b) PROVE \E c : Sound(h, c)
  <2>1. HeadInv => ~Invalid(b)
    BY <1>1 DEF Repeated, HeadInv
  <2>2. "forkchoiceUpdated" \in Methods
    BY DEF Methods
  <2>3. Began(h, "forkchoiceUpdated", b, "lock", "VALID", b)
    BY <1>1, Zenon DEF Repeated
  <2> QED
    BY <1>0, <2>1, <2>2, <2>3
<1>2. ASSUME NEW b \in Blocks, NEW method \in Methods, PreviouslyBad(h, method, b)
      PROVE  \E c : Sound(h, c)
  <2> DEFINE s == Max(Suspects(method, b))
             lvh == badPoSHeaders[s]
  <2>1. s \in Blocks /\ s <= b /\ lvh # NotBad /\ lvh \in Blocks \cup {0}
    BY <1>2, SuspectIs, Zenon DEF PreviouslyBad
  <2>2. Began(h, method, b, PlaceWithAnswer(method), "INVALID", lvh)
    BY <1>2, Zenon DEF PreviouslyBad
  <2> HIDE DEF s
  <2>3. s \in Nat /\ b \in Nat
    BY <2>1, BlockIs
  <2>4. ~stopping /\ BadRight => LastValid(lvh, s)
    BY <2>1, Zenon DEF BadRight
  <2>5. LastValid(lvh, s) => LastValid(lvh, b)
    BY <2>1, <2>3, LastValidIs, Zenon
  <2> HIDE DEF lvh
  <2>6. PlaceWithAnswer(method) \in {"answered", "lock", "downloading", "ready"}
    BY MethodPlaces
  <2> QED
    BY <1>0, <2>1, <2>2, <2>4, <2>5, <2>6
<1>3. ASSUME NEW b \in Blocks, NEW method \in Methods, Quick(h, method, b)
      PROVE  \E c : Sound(h, c)
  <2>1. CASE Settled(method, b) /\ Began(h, method, b, PlaceWithAnswer(method), "VALID", b)
    <3>1. HeadInv => ~Invalid(b)
      BY <2>1, CanonicalValid, Zenon DEF Settled
    <3>2. PlaceWithAnswer(method) \in {"answered", "lock", "downloading", "ready"}
      BY MethodPlaces
    <3> QED
      BY <1>0, <2>1, <3>1, <3>2
  <2>2. CASE \E place \in {"downloading", "ready"} : Began(h, method, b, place, "none", NoBlock)
    BY <1>0, <2>2
  <2> QED
    BY <1>3, <2>1, <2>2, Zenon DEF Quick
<1> QED
  BY <1>1, <1>2, <1>3, Zenon DEF Begin

-----------------------------------------------------------------------------
(* What was reported or answered before is right after the step too.       *)
LEMMA BadNext ==
  ASSUME kind' = kind,
         \A b \in Blocks : badPoSHeaders'[b] # NotBad => LastValid(badPoSHeaders'[b], b)
  PROVE  BadRight'
  BY DEF BadRight, LastValid, Invalid, Defective

LEMMA AnswersNext ==
  ASSUME kind' = kind, \A h \in Handlers : InvalidRight(call'[h])
  PROVE  AnswersRight'
  BY DEF AnswersRight, InvalidRight, LastValid, Invalid, Defective

(* A verdict of ValidateChain reports only what is bad.                    *)
LEMMA ValidatedBad ==
  ASSUME TypeOK, ~stopping, BadRight, kind' = kind, NEW b \in Blocks,
         NEW v \in ValidateChain(b), NEW S \in SUBSET {b}, Validated(v, S)
  PROVE  BadRight'
<1>1. /\ v.status = "BadBlock" => LastValid(v.valid, b)
      /\ \A a \in v.reported : LastValid(a - 1, a)
  BY VerdictIs, Zenon
<1>2. ASSUME NEW x \in Blocks, badPoSHeaders'[x] # NotBad
      PROVE  LastValid(badPoSHeaders'[x], x)
  <2>1. badPoSHeaders'[x] = IF v.status = "BadBlock" /\ x \in S THEN v.valid
                            ELSE IF x \in v.reported THEN x - 1 ELSE badPoSHeaders[x]
    BY <1>2, Zenon DEF Validated
  <2>2. CASE v.status = "BadBlock" /\ x \in S
    BY <1>1, <2>1, <2>2, Zenon
  <2>3. CASE ~(v.status = "BadBlock" /\ x \in S) /\ x \in v.reported
    BY <1>1, <2>1, <2>3, Zenon
  <2>4. CASE ~(v.status = "BadBlock" /\ x \in S) /\ x \notin v.reported
    BY <1>2, <2>1, <2>4, Zenon DEF BadRight
  <2> QED
    BY <2>2, <2>3, <2>4, Zenon
<1> QED
  BY <1>2, BadNext, Zenon

LEMMA ReportedBad ==
  ASSUME ~stopping, BadRight, kind' = kind, NEW b, NEW l, LastValid(l, b),
         ReportBadHeaderPoS({b}, l)
  PROVE  BadRight'
<1>1. ASSUME NEW x \in Blocks, badPoSHeaders'[x] # NotBad
      PROVE  LastValid(badPoSHeaders'[x], x)
  <2>1. badPoSHeaders'[x] = IF x \in {b} THEN l ELSE badPoSHeaders[x]
    BY <1>1, Zenon DEF ReportBadHeaderPoS
  <2> QED
    BY <1>1, <2>1, Zenon DEF BadRight
<1> QED
  BY <1>1, BadNext, Zenon

LEMMA BadStep ==
  TypeOK /\ TipInv /\ BadRight /\ AnswersRight /\ [Next]_vars => BadRight' /\ AnswersRight'
<1> SUFFICES ASSUME TypeOK, TipInv, BadRight, AnswersRight, [Next]_vars, ~stopping'
             PROVE  BadRight' /\ AnswersRight'
  BY DEF BadRight, AnswersRight
<1>1. kind' = kind /\ ~stopping
  BY Fixed, Zenon
<1>2. badPoSHeaders' = badPoSHeaders => BadRight'
  BY <1>1, BadNext, Zenon DEF BadRight
<1>3. \A h \in Handlers : InvalidRight(call[h])
  BY <1>1, Zenon DEF AnswersRight
<1>4. call' = call => AnswersRight'
  BY <1>1, <1>3, AnswersNext, Zenon
<1>5. ASSUME NEW h \in Handlers, NEW c, Sound(h, c) PROVE AnswersRight'
  <2>1. InvalidRight(c)
    BY <1>1, <1>3, <1>5, Zenon DEF Sound
  <2>2. \A g \in Handlers : InvalidRight(call'[g])
    BY <1>3, <1>5, <2>1, Zenon DEF Sound, Becomes
  <2> QED
    BY <1>1, <2>2, AnswersNext, Zenon
<1>6. ASSUME NEW h \in Handlers, Begin(h) PROVE BadRight' /\ AnswersRight'
  <2>1. AnswersRight'
    BY <1>5, <1>6, BeginSound, Zenon
  <2>2. ASSUME NEW b \in Blocks, NEW method \in Methods, PreviouslyBad(h, method, b)
        PROVE  BadRight'
    <3> DEFINE s == Max(Suspects(method, b))
               lvh == badPoSHeaders[s]
    <3>1. s \in Blocks /\ s <= b /\ lvh # NotBad
      BY <2>2, SuspectIs, Zenon DEF PreviouslyBad
    <3>2. ReportBadHeaderPoS({b}, lvh)
      BY <2>2, Zenon DEF PreviouslyBad
    <3> HIDE DEF s
    <3>3. s \in Nat /\ b \in Nat
      BY <3>1, BlockIs
    <3>4. LastValid(lvh, s)
      BY <1>1, <3>1, Zenon DEF BadRight
    <3>5. LastValid(lvh, b)
      BY <3>1, <3>3, <3>4, LastValidIs, Zenon
    <3> QED
      BY <1>1, <3>2, <3>5, ReportedBad, Zenon
  <2>3. BadRight'
    BY <1>2, <1>6, <2>2, Zenon DEF Begin, Repeated, Quick
  <2> QED
    BY <2>1, <2>3
<1>7. ASSUME NEW h \in Handlers, Handle(h) PROVE BadRight' /\ AnswersRight'
  <2>b. call[h].block \in Blocks
    BY CallIs, Zenon
  <2>1. AnswersRight'
    BY <1>5, <1>7, HandleSound, Zenon
  <2>2. CASE Validate(h)
    <3> DEFINE S == IF call[h].downloaded THEN {} ELSE {call[h].block}
    <3>1. PICK v \in ValidateChain(call[h].block) : Validated(v, S)
      BY <2>2, Zenon DEF Validate
    <3>2. S \in SUBSET {call[h].block}
      OBVIOUS
    <3> HIDE DEF S
    <3> QED
      BY <1>1, <2>b, <2>1, <3>1, <3>2, ValidatedBad, Zenon
  <2>3. CASE Refuse(h)
    <3>1. CASE /\ Invalid(call[h].block)
               /\ ReportBadHeaderPoS({FirstBad(call[h].block)}, FirstBad(call[h].block) - 1)
      <4>1. LastValid(FirstBad(call[h].block) - 1, FirstBad(call[h].block))
        BY <2>b, <3>1, FirstBadIs, Zenon
      <4> QED
        BY <1>1, <2>1, <3>1, <4>1, ReportedBad, Zenon
    <3> QED
      BY <1>2, <2>1, <2>3, <3>1, Zenon DEF Refuse
  <2>4. CASE ~Validate(h) /\ ~Refuse(h)
    BY <1>2, <1>7, <2>1, <2>4, Zenon DEF Handle, WaitDownload, WaitReady, Locks, ReturnQuick, FetchParent,
       HaveParent, FetchHead, TryUpdate, WaitSynced, Insert, TryValidate, Adopt
  <2> QED
    BY <2>1, <2>2, <2>3, <2>4
<1>8. CASE ValidateTip
  <2>1. download.tip \in Blocks
    BY <1>8 DEF ValidateTip, DownloadAt, TipInv, TypeOK
  <2>2. PICK v \in ValidateChain(download.tip) : Validated(v, {download.tip})
    BY <1>8, Zenon DEF ValidateTip
  <2>3. {download.tip} \in SUBSET {download.tip} /\ call' = call
    BY <1>8, Zenon DEF ValidateTip
  <2> QED
    BY <1>1, <1>4, <2>1, <2>2, <2>3, ValidatedBad, Zenon
<1>9. CASE (Download /\ ~ValidateTip) \/ PoSLoop \/ FinishForkChoice \/ Stop
           \/ (\E lo \in Blocks : ProcessHeadersPOS(lo)) \/ UNCHANGED vars
  <2>1. badPoSHeaders' = badPoSHeaders /\ call' = call
    BY <1>9, Zenon DEF Download, SetHeaderToDownloadPoS, SetHeadersCollector, SetPosStatus,
       WaitForEndOfHeadersDownload, LoadBlocks, InsertTip, StopDownload, TryValidateTip,
       PoSLoop, RequestHeaders, CleanUpPoSDownload, FinishForkChoice, Stop, ProcessHeadersPOS, vars
  <2> QED
    BY <1>2, <1>4, <2>1
<1> QED
  BY <1>6, <1>7, <1>8, <1>9, Zenon DEF Next

LEMMA InitRight == Init => TypeOK /\ TipInv /\ BadRight /\ AnswersRight
<1> SUFFICES ASSUME Init PROVE TypeOK /\ TipInv /\ BadRight /\ AnswersRight
  OBVIOUS
<1>1. 1 \in Blocks /\ N \in Nat /\ 0 \in 0..MaxTimeouts
  BY EngineAssumption DEF Blocks
<1>2. DbOK
  BY <1>1 DEF Init, DbOK
<1>3. DownOK /\ TipInv
  BY DEF Init, DownOK, TipInv
<1>4. HdOK
  BY <1>1 DEF Init, HdOK, NoAnchor, NoCollector
<1>5. BadOK
  BY DEF Init, BadOK
<1>6. CallOK
  <2>1. [method |-> NoMethod, block |-> 1, at |-> "answered",
         downloaded |-> FALSE, answer |-> "none", valid |-> NoBlock] \in Call
    BY <1>1 DEF Call, Places
  <2> QED
    BY <2>1, Zenon DEF Init, CallOK
<1>7. kind \in Chains /\ stopping \in BOOLEAN
  BY Zenon DEF Init
<1>8. TypeOK
  BY <1>2, <1>3, <1>4, <1>5, <1>6, <1>7, TypeGroups, Zenon
<1>9. BadRight /\ AnswersRight
  BY DEF Init, BadRight, AnswersRight, InvalidRight
<1> QED
  BY <1>3, <1>8, <1>9

(* The server's state has its type, whatever the calls, the peers and the  *)
(* execution module do: in particular the hashes that a download and an    *)
(* answer are about are those of blocks.                                   *)
THEOREM TypeCorrect == Spec => [](TypeOK /\ TipInv)
<1>1. TypeOK /\ TipInv /\ [Next]_vars => TypeOK' /\ TipInv'
  BY TypesStep
<1>2. Init => TypeOK /\ TipInv
  BY InitRight
<1> QED
  BY <1>1, <1>2, PTL DEF Spec

LEMMA BadAlways == Spec => [](BadRight /\ AnswersRight)
<1>1. TypeOK /\ TipInv /\ BadRight /\ AnswersRight /\ [Next]_vars => BadRight' /\ AnswersRight'
  BY BadStep
<1>2. Init => BadRight /\ AnswersRight
  BY InitRight
<1> QED
  BY <1>1, <1>2, TypeCorrect, PTL DEF Spec

(* No valid block is answered INVALID (engine_server.go:370-491,           *)
(* block_downloader.go): what ReportBadHeaderPoS was told of, by whichever *)
(* call and however late, is bad.                                          *)
THEOREM NeverFalseInvalid == Spec => []NoFalseInvalid
<1>1. AnswersRight => NoFalseInvalid
  BY Zenon DEF AnswersRight, InvalidRight, NoFalseInvalid
<1> QED
  BY <1>1, BadAlways, PTL

(* The latest valid hash of an INVALID answer is the last valid ancestor,  *)
(* also when the answer comes from the table of bad headers.               *)
THEOREM LatestValidAlwaysRight == Spec => []LatestValidIsRight
<1>1. AnswersRight => LatestValidIsRight
  BY Zenon DEF AnswersRight, InvalidRight, LastValid, LatestValidIsRight
<1> QED
  BY <1>1, BadAlways, PTL

-----------------------------------------------------------------------------
(* The total difficulty of a block stays, and only what is bad is purged.  *)
LEMMA ValidatedStays ==
  ASSUME TypeOK, NEW b \in Blocks, NEW v \in ValidateChain(b), NEW S, Validated(v, S)
  PROVE  td' = td /\ \A x \in known : x \in known' \/ stopping \/ Invalid(x)
<1>1. td' = td /\ known' = known \ v.purged
  BY DEF Validated
<1>2. ~stopping => \A a \in v.purged : Invalid(a)
  BY VerdictIs, Zenon
<1> QED
  BY <1>1, <1>2, Zenon

LEMMA BlocksStay ==
  ASSUME TypeOK, TipInv, [Next]_vars
  PROVE  td \subseteq td' /\ \A x \in known : x \in known' \/ stopping \/ Invalid(x)
<1>1. ASSUME NEW S, InsertBlocks(S) PROVE td \subseteq td' /\ known \subseteq known'
  BY <1>1 DEF InsertBlocks
<1>2. ASSUME UNCHANGED <<known, td>> PROVE td \subseteq td' /\ known \subseteq known'
  BY <1>2
<1>3. ASSUME NEW h \in Handlers, Validate(h)
      PROVE  td' = td /\ \A x \in known : x \in known' \/ stopping \/ Invalid(x)
  <2>1. call[h].block \in Blocks
    BY CallIs, Zenon
  <2>2. PICK v \in ValidateChain(call[h].block) :
          Validated(v, IF call[h].downloaded THEN {} ELSE {call[h].block})
    BY <1>3, Zenon DEF Validate
  <2> QED
    BY <2>1, <2>2, ValidatedStays, Zenon
<1>4. ASSUME ValidateTip
      PROVE  td' = td /\ \A x \in known : x \in known' \/ stopping \/ Invalid(x)
  <2>1. download.tip \in Blocks
    BY <1>4 DEF ValidateTip, DownloadAt, TipInv, TypeOK
  <2>2. PICK v \in ValidateChain(download.tip) : Validated(v, {download.tip})
    BY <1>4, Zenon DEF ValidateTip
  <2> QED
    BY <2>1, <2>2, ValidatedStays, Zenon
<1>5. ASSUME NEW h \in Handlers, Begin(h) \/ Handle(h), ~Validate(h), ~Insert(h)
      PROVE  UNCHANGED <<known, td>>
  BY <1>5, Zenon DEF Begin, Repeated, PreviouslyBad, Quick, Handle, WaitDownload, WaitReady, Locks,
     ReturnQuick, FetchParent, HaveParent, FetchHead, TryUpdate, WaitSynced, TryValidate, Refuse,
     Adopt, execVars, dbVars
<1>6. ASSUME (Download /\ ~ValidateTip /\ ~LoadBlocks /\ ~InsertTip) \/ PoSLoop
             \/ FinishForkChoice \/ Stop \/ (\E lo \in Blocks : ProcessHeadersPOS(lo))
             \/ UNCHANGED vars
      PROVE  UNCHANGED <<known, td>>
  BY <1>6, Zenon DEF Download, SetHeaderToDownloadPoS, SetHeadersCollector, SetPosStatus,
     WaitForEndOfHeadersDownload, StopDownload, TryValidateTip, PoSLoop, RequestHeaders,
     CleanUpPoSDownload, FinishForkChoice, Stop, ProcessHeadersPOS, vars, execVars, dbVars
<1>7. ASSUME (\E h \in Handlers : Insert(h)) \/ LoadBlocks \/ InsertTip
      PROVE  td \subseteq td' /\ known \subseteq known'
  BY <1>1, <1>7, Zenon DEF Insert, LoadBlocks, InsertTip
<1> QED
  BY <1>2, <1>3, <1>4, <1>5, <1>6, <1>7, Zenon DEF Next

(* What a handler has downloaded is a block, and below the tip.            *)
LEMMA StartedIs ==
  ASSUME TypeOK, NEW h \in Handlers, Begin(h) \/ Handle(h)
  PROVE  \/ UNCHANGED downloaderVars
         \/ \E hash \in Blocks, tip \in Blocks \cup {NoBlock} :
              /\ tip # NoBlock => hash < tip
              /\ status' = "Syncing"
              /\ download' = [at |-> "schedule", hash |-> hash, tip |-> tip]
<1>b. call[h].block \in Blocks /\ call[h].block \in Nat
  BY CallIs, BlockIs
<1>1. CASE Begin(h)
  BY <1>1, Zenon DEF Begin, Repeated, PreviouslyBad, Quick
<1>2. ASSUME NEW hash \in Blocks, NEW tip \in Blocks \cup {NoBlock}, tip # NoBlock => hash < tip,
             StartDownloading(hash, tip)
      PROVE  \/ UNCHANGED downloaderVars
             \/ \E a \in Blocks, t \in Blocks \cup {NoBlock} :
                  /\ t # NoBlock => a < t
                  /\ status' = "Syncing"
                  /\ download' = [at |-> "schedule", hash |-> a, tip |-> t]
  BY <1>2, Zenon DEF StartDownloading
<1>3. CASE FetchParent(h)
  <2>1. call[h].block - 1 # 0
    BY <1>3, Zenon DEF FetchParent, Has
  <2>2. call[h].block - 1 \in Blocks /\ call[h].block - 1 < call[h].block
    BY <1>b, <2>1, EngineAssumption DEF Blocks
  <2>3. StartDownloading(call[h].block - 1, call[h].block)
    BY <1>3, Zenon DEF FetchParent
  <2> QED
    BY <1>b, <1>2, <2>2, <2>3, Zenon
<1>4. CASE FetchHead(h)
  <2>1. StartDownloading(call[h].block, NoBlock)
    BY <1>4, Zenon DEF FetchHead
  <2> QED
    BY <1>b, <1>2, <2>1, Zenon
<1>5. CASE Validate(h)
  <2>1. PICK v \in ValidateChain(call[h].block) :
          IF v.status = "MissingChain" THEN StartDownloading(v.missing, call[h].block)
          ELSE UNCHANGED downloaderVars
    BY <1>5, Zenon DEF Validate
  <2>2. v.status = "MissingChain" => v.missing \in Blocks /\ v.missing < call[h].block
    BY <1>b, VerdictIs, Zenon
  <2> QED
    BY <1>b, <1>2, <2>1, <2>2, Zenon
<1>6. CASE /\ Handle(h)
           /\ ~(FetchParent(h) \/ FetchHead(h) \/ Validate(h))
  BY <1>6, Zenon DEF Handle, WaitDownload, WaitReady, Locks, ReturnQuick, HaveParent,
     TryUpdate, WaitSynced, Insert, TryValidate, Refuse, Adopt
<1> QED
  BY <1>1, <1>3, <1>4, <1>5, <1>6, Zenon

LEMMA HandlersHeaders ==
  ASSUME NEW h \in Handlers, Begin(h) \/ Handle(h)
  PROVE  UNCHANGED hdVars
  BY Zenon DEF Begin, Repeated, PreviouslyBad, Quick, Handle, WaitDownload, WaitReady, Locks,
     ReturnQuick, FetchParent, HaveParent, FetchHead, TryUpdate, WaitSynced, Insert, TryValidate,
     Validate, Refuse, Adopt

LEMMA DownloadFields ==
  ASSUME TypeOK, NEW place, DownloadGoesTo(place)
  PROVE  /\ download'.at = place /\ download'.hash = download.hash
         /\ download'.tip = download.tip /\ status' = status
<1>1. download \in [at : {"off", "schedule", "collector", "start", "wait", "load", "tip",
                          "verify", "validate"},
                    hash : Blocks \cup {NoBlock}, tip : Blocks \cup {NoBlock}]
  BY Zenon DEF TypeOK
<1> QED
  BY <1>1 DEF DownloadGoesTo

LEMMA DownloadOff ==
  ASSUME NEW st \in {"Idle", "Synced"}, DownloadEnds(st)
  PROVE  DownloadInv'
  BY DEF DownloadEnds, DownloadInv, Running, Asked, Collected, Stored

(* The download goes on with the same request.                             *)
LEMMA DownloadGoesOn ==
  ASSUME TypeOK, Running, Asked, NEW place, place # "off", download.at # "off",
         DownloadGoesTo(place)
  PROVE  Running' /\ Asked'
<1>1. /\ download'.at = place /\ download'.hash = download.hash
      /\ download'.tip = download.tip /\ status' = status
  BY DownloadFields, Zenon
<1> QED
  BY <1>1 DEF Running, Asked

(* What was stored for the tip stays, or the tip is bad.                   *)
LEMMA StoredStays ==
  ASSUME TypeOK, TipInv, Asked, Stored, [Next]_vars,
         download.at \in {"tip", "verify", "validate"},
         download'.hash = download.hash, download'.tip = download.tip
  PROVE  Stored'
<1>1. td \subseteq td' /\ \A x \in known : x \in known' \/ stopping \/ Invalid(x)
  BY BlocksStay, Zenon
<1>2. (stopping => stopping') /\ kind' = kind
  BY Fixed, Zenon
<1>3. download.hash \in Blocks /\ download.tip \in Blocks /\ download.hash < download.tip
  <2>1. download.tip # NoBlock /\ download.at # "off"
    BY DEF TipInv
  <2>2. download.tip \in Blocks
    BY <2>1 DEF TypeOK
  <2> QED
    BY <2>1, <2>2 DEF Asked
<1>4. download.hash \in Nat /\ download.tip \in Nat /\ download.hash <= download.tip
  BY <1>3, BlockIs
<1>5. Invalid(download.hash) => Invalid(download.tip)
  BY <1>4, InvalidAbove, Zenon
<1>6. download.hash \in td /\ (stopping \/ download.hash \in known \/ Invalid(download.tip))
  BY DEF Stored
<1>7. download.hash \in td' /\ (stopping' \/ download.hash \in known' \/ Invalid(download.tip))
  BY <1>1, <1>2, <1>5, <1>6, Zenon
<1>8. Invalid(download.tip) => Invalid(download.tip)'
  BY <1>2 DEF Invalid, Defective
<1> QED
  BY <1>7, <1>8 DEF Stored, Invalid, Defective

(* Without a packet that arrives while a download is being set up, the     *)
(* download invariant is inductive.                                        *)
LEMMA DownloadStep ==
  ASSUME ~SetupRaces, TypeOK, TipInv, DownloadInv, [Next]_vars
  PROVE  DownloadInv'
<1>0. Running /\ Asked /\ Collected /\ Stored
  BY DEF DownloadInv
<1>s. stopping => stopping'
  BY Fixed, Zenon
<1>1. ASSUME UNCHANGED downloaderVars
      PROVE  Running' /\ Asked' /\ Stored'
  <2>1. status' = status /\ download' = download
    BY <1>1 DEF downloaderVars
  <2>2. Running' /\ Asked'
    BY <1>0, <2>1 DEF Running, Asked
  <2>3. Stored'
    <3>1. CASE download.at \in {"tip", "verify", "validate"}
      BY <1>0, <2>1, <3>1, StoredStays
    <3>2. CASE download.at \notin {"tip", "verify", "validate"}
      BY <2>1, <3>2 DEF Stored
    <3> QED
      BY <3>1, <3>2
  <2> QED
    BY <2>2, <2>3
<1>2. ASSUME UNCHANGED downloaderVars, UNCHANGED hdVars PROVE DownloadInv'
  <2>1. Collected'
    BY <1>0, <1>s, <1>2 DEF Collected, Anchored, downloaderVars, hdVars
  <2> QED
    BY <1>1, <1>2, <2>1 DEF DownloadInv
<1>3. ASSUME NEW h \in Handlers, Begin(h) \/ Handle(h) PROVE DownloadInv'
  <2>1. UNCHANGED hdVars
    BY <1>3, HandlersHeaders, Zenon
  <2>2. ASSUME NEW hash \in Blocks, NEW tip \in Blocks \cup {NoBlock},
               tip # NoBlock => hash < tip, status' = "Syncing",
               download' = [at |-> "schedule", hash |-> hash, tip |-> tip]
        PROVE  DownloadInv'
    <3>1. download'.at = "schedule" /\ download'.hash = hash /\ download'.tip = tip
      BY <2>2
    <3> QED
      BY <2>2, <3>1 DEF DownloadInv, Running, Asked, Collected, Stored
  <2> QED
    BY <1>2, <1>3, <2>1, <2>2, StartedIs, Zenon
<1>4. CASE SetHeaderToDownloadPoS
  <2>1. CASE DownloadEnds("Idle")
    BY <2>1, DownloadOff
  <2>2. CASE /\ posStatus = "Idle" /\ posAnchor' = [hash |-> download.hash, timeouts |-> 0]
             /\ DownloadGoesTo("collector") /\ posStatus' = posStatus
    <3>1. /\ download'.at = "collector" /\ download'.hash = download.hash
          /\ download'.tip = download.tip
      BY <2>2, DownloadFields, Zenon
    <3>2. download.at # "off"
      BY <1>4 DEF SetHeaderToDownloadPoS, DownloadAt
    <3>3. Running' /\ Asked'
      BY <1>0, <2>2, <3>2, DownloadGoesOn
    <3>4. Collected' /\ Stored'
      BY <2>2, <3>1 DEF Collected, Anchored, Stored
    <3> QED
      BY <3>3, <3>4 DEF DownloadInv
  <2> QED
    BY <1>4, <2>1, <2>2, Zenon DEF SetHeaderToDownloadPoS
<1>5. CASE SetHeadersCollector
  <2>1. /\ download'.at = "start" /\ download'.hash = download.hash
        /\ download'.tip = download.tip /\ UNCHANGED <<posStatus, posAnchor>>
    BY <1>5, DownloadFields, Zenon DEF SetHeadersCollector
  <2>2. download.at = "collector" /\ DownloadGoesTo("start")
    BY <1>5 DEF SetHeadersCollector, DownloadAt
  <2>3. Running' /\ Asked'
    BY <1>0, <2>2, DownloadGoesOn
  <2>4. Collected' /\ Stored'
    BY <1>0, <2>1, <2>2 DEF Collected, Anchored, Stored
  <2> QED
    BY <2>3, <2>4 DEF DownloadInv
<1>6. CASE SetPosStatus
  <2>1. /\ download'.at = "wait" /\ download'.hash = download.hash
        /\ download'.tip = download.tip /\ posStatus' = "Syncing" /\ posAnchor' = posAnchor
    BY <1>6, DownloadFields, Zenon DEF SetPosStatus
  <2>2. download.at = "start" /\ DownloadGoesTo("wait")
    BY <1>6 DEF SetPosStatus, DownloadAt
  <2>3. Running' /\ Asked'
    BY <1>0, <2>2, DownloadGoesOn
  <2>4. Collected' /\ Stored'
    BY <1>0, <2>1, <2>2 DEF Collected, Anchored, Stored
  <2> QED
    BY <2>3, <2>4 DEF DownloadInv
<1>7. CASE WaitForEndOfHeadersDownload
  <2>1. CASE DownloadEnds("Idle")
    BY <2>1, DownloadOff
  <2>2. CASE posStatus = "Synced" /\ posStatus' = "Idle" /\ DownloadGoesTo("load")
    <3>1. /\ download'.at = "load" /\ download'.hash = download.hash
          /\ download'.tip = download.tip
      BY <2>2, DownloadFields, Zenon
    <3>2. download.at = "wait" /\ headersCollector' = headersCollector
      BY <1>7 DEF WaitForEndOfHeadersDownload, DownloadAt
    <3>3. Running' /\ Asked'
      BY <1>0, <2>2, <3>2, DownloadGoesOn
    <3>4. Collected' /\ Stored'
      BY <1>0, <2>2, <3>1, <3>2 DEF Collected, Stored
    <3> QED
      BY <3>3, <3>4 DEF DownloadInv
  <2> QED
    BY <1>7, <2>1, <2>2, Zenon DEF WaitForEndOfHeadersDownload
<1>8. CASE LoadBlocks
  <2>1. CASE DownloadEnds("Idle") \/ DownloadEnds("Synced")
    BY <2>1, DownloadOff
  <2>2. CASE Insertable(headersCollector.headers) /\ DownloadGoesTo("tip")
    <3>1. /\ download'.at = "tip" /\ download'.hash = download.hash
          /\ download'.tip = download.tip
      BY <2>2, DownloadFields, Zenon
    <3>2. download.at = "load" /\ ~stopping /\ InsertBlocks(headersCollector.headers)
      BY <1>8 DEF LoadBlocks, DownloadAt
    <3>3. Running' /\ Asked'
      BY <1>0, <2>2, <3>2, DownloadGoesOn
    <3>4. download.hash \in headersCollector.headers
      BY <1>0, <3>2 DEF Collected
    <3>5. download.hash \in td' /\ download.hash \in known'
      BY <2>2, <3>2, <3>4 DEF InsertBlocks
    <3>6. Collected' /\ Stored'
      BY <3>1, <3>5 DEF Collected, Stored
    <3> QED
      BY <3>3, <3>6 DEF DownloadInv
  <2> QED
    BY <1>8, <2>1, <2>2, Zenon DEF LoadBlocks
<1>9. ASSUME NEW place \in {"verify", "validate"}, DownloadGoesTo(place),
             download.at \in {"tip", "verify"}
      PROVE  DownloadInv'
  <2>1. /\ download'.at = place /\ download'.hash = download.hash
        /\ download'.tip = download.tip
    BY <1>9, DownloadFields, Zenon
  <2>2. place # "off" /\ download.at # "off"
    BY <1>9
  <2>3. Running' /\ Asked'
    BY <1>0, <1>9, <2>2, DownloadGoesOn
  <2>4. download.at \in {"tip", "verify", "validate"}
    BY <1>9
  <2>5. Stored'
    BY <1>0, <2>1, <2>4, StoredStays, Zenon
  <2>6. Collected'
    BY <1>9, <2>1 DEF Collected
  <2> QED
    BY <2>3, <2>5, <2>6 DEF DownloadInv
<1>10. CASE InsertTip \/ TryValidateTip
  <2>1. download.at \in {"tip", "verify"}
    BY <1>10 DEF InsertTip, TryValidateTip, DownloadAt
  <2>2. DownloadGoesTo("verify") \/ DownloadGoesTo("validate") \/ DownloadEnds("Idle")
    BY <1>10, Zenon DEF InsertTip, TryValidateTip
  <2> QED
    BY <1>9, <2>1, <2>2, DownloadOff
<1>11. CASE StopDownload \/ ValidateTip
  <2>1. \E st \in {"Idle", "Synced"} : DownloadEnds(st)
    BY <1>11, Zenon DEF StopDownload, ValidateTip
  <2> QED
    BY <2>1, DownloadOff
<1>12. CASE RequestHeaders
  <2>1. UNCHANGED downloaderVars /\ posStatus' = posStatus /\ headersCollector' = headersCollector
        /\ posStatus = "Syncing" /\ posAnchor # NoAnchor
    BY <1>12, Zenon DEF RequestHeaders
  <2>2. posAnchor'.hash = posAnchor.hash
    <3>1. posAnchor \in [hash : Blocks \cup {NoBlock}, timeouts : 0..MaxTimeouts]
      BY Zenon DEF TypeOK
    <3> QED
      BY <1>12, <3>1 DEF RequestHeaders
  <2>3. Collected'
    BY <1>0, <1>s, <2>1, <2>2 DEF Collected, Anchored, downloaderVars
  <2> QED
    BY <1>1, <2>1, <2>3 DEF DownloadInv
<1>13. CASE CleanUpPoSDownload
  <2>1. UNCHANGED downloaderVars /\ posStatus' = "Idle" /\ posAnchor' = NoAnchor
        /\ (posStatus = "Syncing" \/ stopping)
    BY <1>13, Zenon DEF CleanUpPoSDownload
  <2>2. Collected'
    BY <1>0, <1>s, <2>1 DEF Collected, Anchored, downloaderVars
  <2> QED
    BY <1>1, <2>1, <2>2 DEF DownloadInv
<1>14. ASSUME NEW lo \in Blocks, ProcessHeadersPOS(lo) PROVE DownloadInv'
  <2> DEFINE a == posAnchor.hash
             low == IF Joins(a, lo) = {} THEN lo ELSE Max(Joins(a, lo))
  <2>1. /\ UNCHANGED downloaderVars /\ posAnchor # NoAnchor /\ lo <= a
        /\ download.at \notin {"collector", "start"}
        /\ headersCollector' = [headersCollector EXCEPT !.headers = @ \cup (low..a)]
        /\ posStatus' = posStatus \/ posStatus' = "Synced"
    BY <1>14, Zenon DEF ProcessHeadersPOS
  <2>2. a \in Nat /\ lo \in Nat /\ lo <= a
    <3>1. a \in Blocks \cup {NoBlock} /\ lo \in Nat /\ lo >= 1
      BY BlockIs DEF TypeOK
    <3> QED
      BY <2>1, <3>1, BlockIs DEF NoBlock
  <2>3. low \in Nat /\ low <= a
    <3>1. Joins(a, lo) \in SUBSET 0..a /\ \A c \in Joins(a, lo) : c \in Nat /\ c <= a
      BY <2>2 DEF Joins
    <3>2. Joins(a, lo) # {} => Max(Joins(a, lo)) \in Joins(a, lo)
      BY <2>2, <3>1, GreatestIs, Zenon
    <3> QED
      BY <2>2, <3>1, <3>2
  <2> HIDE DEF low
  <2>4. headersCollector'.headers = headersCollector.headers \cup (low..a)
    <3>1. headersCollector \in [open : BOOLEAN, headers : SUBSET Blocks]
      BY Zenon DEF TypeOK
    <3> QED
      BY <2>1, <3>1
  <2>5. a \in headersCollector'.headers
        /\ headersCollector.headers \subseteq headersCollector'.headers
    BY <2>2, <2>3, <2>4
  <2>6. download' = download
    BY <2>1 DEF downloaderVars
  <2>7. CASE download.at = "wait"
    <3>1. download.hash \in headersCollector'.headers
      BY <1>0, <2>1, <2>5, <2>7 DEF Collected, Anchored
    <3>2. Collected'
      BY <2>6, <2>7, <3>1 DEF Collected
    <3> QED
      BY <1>1, <2>1, <3>2 DEF DownloadInv
  <2>8. CASE download.at # "wait"
    <3>1. Collected'
      BY <1>0, <1>s, <2>1, <2>5, <2>6, <2>8 DEF Collected
    <3> QED
      BY <1>1, <2>1, <3>1 DEF DownloadInv
  <2> QED
    BY <2>7, <2>8
<1>15. CASE FinishForkChoice \/ Stop \/ UNCHANGED vars
  <2>1. UNCHANGED downloaderVars /\ UNCHANGED hdVars
    BY <1>15, Zenon DEF FinishForkChoice, Stop, vars
  <2> QED
    BY <1>2, <2>1
<1> QED
  BY <1>3, <1>4, <1>5, <1>6, <1>7, <1>8, <1>10, <1>11, <1>12, <1>13, <1>14, <1>15, Zenon
  DEF Next, Download, PoSLoop

(* The downloader says Synced only of a block that it has stored, however  *)
(* the calls, the packets of the peers and the timeouts interleave: a      *)
(* download whose headers never came ends Idle, and what another call      *)
(* purged in the meantime belongs to a bad chain (block_downloader.go,     *)
(* headerdownload's ProcessHeadersPOS and cleanUpPoSDownload).  A packet   *)
(* that comes between the calls of scheduleHeadersDownload is excluded.    *)
THEOREM SyncedAlwaysMeansHave ==
  ASSUME ~SetupRaces
  PROVE  Spec => SyncedMeansHave
<1>1. Init => DownloadInv
  BY DEF Init, DownloadInv, Running, Asked, Collected, Stored
<1>2. TypeOK /\ TipInv /\ DownloadInv /\ [Next]_vars => DownloadInv'
  BY DownloadStep
<1>3. ASSUME TypeOK, TipInv, DownloadInv, [Next]_vars,
             status' = "Synced", status # "Synced", ~stopping
      PROVE  \/ download.hash \in known'
             \/ download.hash \in td' /\ download.tip # NoBlock /\ Invalid(download.tip)
  <2>0. Collected /\ Stored
    BY <1>3 DEF DownloadInv
  <2>1. ~UNCHANGED downloaderVars
    BY <1>3 DEF downloaderVars
  <2>2. ASSUME NEW h \in Handlers, Begin(h) \/ Handle(h) PROVE FALSE
    BY <1>3, <2>1, <2>2, HandlersDownload
  <2>3. ASSUME NEW place, DownloadGoesTo(place) PROVE FALSE
    BY <1>3, <2>3 DEF DownloadGoesTo
  <2>4. ~DownloadEnds("Idle")
    BY <1>3 DEF DownloadEnds
  <2>5. CASE LoadBlocks
    <3>1. download.at = "load" /\ Insertable(headersCollector.headers)
          /\ InsertBlocks(headersCollector.headers)
      BY <2>4, <2>5, Zenon DEF LoadBlocks, DownloadAt
    <3>2. download.hash \in headersCollector.headers
      BY <1>3, <2>0, <3>1 DEF Collected
    <3> QED
      BY <3>1, <3>2 DEF InsertBlocks
  <2>6. CASE ValidateTip
    <3>1. download.at = "validate" /\ download.tip \in Blocks /\ download.tip # NoBlock
      BY <1>3, <2>6 DEF ValidateTip, DownloadAt, TipInv, TypeOK
    <3>2. PICK v \in ValidateChain(download.tip) :
            /\ Validated(v, {download.tip})
            /\ DownloadEnds(IF v.status \in {"Success", "MissingSegment"} THEN "Synced" ELSE "Idle")
      BY <2>6, Zenon DEF ValidateTip
    <3>3. v.status \in {"Success", "MissingSegment"}
      BY <2>4, <3>2
    <3>4. v.purged = {}
      BY <1>3, <3>1, <3>3, VerdictIs
    <3>5. td' = td /\ known' = known
      BY <3>2, <3>4 DEF Validated
    <3> QED
      BY <1>3, <2>0, <3>1, <3>5 DEF Stored
  <2>7. CASE (Download /\ ~LoadBlocks /\ ~ValidateTip)
    BY <2>3, <2>4, <2>7, Zenon DEF Download, SetHeaderToDownloadPoS, SetHeadersCollector,
       SetPosStatus, WaitForEndOfHeadersDownload, InsertTip, StopDownload, TryValidateTip
  <2>8. CASE PoSLoop \/ FinishForkChoice \/ Stop \/ (\E lo \in Blocks : ProcessHeadersPOS(lo))
             \/ UNCHANGED vars
    BY <2>1, <2>8, Zenon DEF PoSLoop, RequestHeaders, CleanUpPoSDownload, FinishForkChoice, Stop,
       ProcessHeadersPOS, vars
  <2> QED
    BY <1>3, <2>2, <2>5, <2>6, <2>7, <2>8, Zenon DEF Next
<1>4. TypeOK /\ TipInv /\ DownloadInv /\ [Next]_vars =>
        [status' = "Synced" /\ status # "Synced" /\ ~stopping =>
           \/ download.hash \in known'
           \/ download.hash \in td' /\ download.tip # NoBlock /\ Invalid(download.tip)]_vars
  BY <1>3, Zenon
<1> QED
  BY <1>1, <1>2, <1>4, TypeCorrect, PTL DEF Spec, SyncedMeansHave

-----------------------------------------------------------------------------
(* s.lock is taken when it is free, and released by its holder.            *)
LEMMA LockMoves ==
  ASSUME NEW h \in Handlers, Begin(h) \/ Handle(h)
  PROVE  lock' = lock \/ lock = Free \/ call[h].at \in UnderLock
<1>1. CASE Begin(h) \/ WaitDownload(h) \/ WaitReady(h)
  BY <1>1, Zenon DEF Begin, Repeated, PreviouslyBad, Quick, WaitDownload, WaitReady
<1>2. CASE Locks(h)
  BY <1>2, Zenon DEF Locks, ReturnQuick, FetchParent, HaveParent, FetchHead, TryUpdate, Enter
<1>3. CASE WaitSynced(h) \/ Insert(h) \/ TryValidate(h) \/ Validate(h) \/ Refuse(h) \/ Adopt(h)
  <2>1. call[h].at \in {"wait", "insert", "accept", "verify", "validate", "update"}
    BY <1>3, Zenon DEF WaitSynced, Insert, TryValidate, Validate, Refuse, Adopt, At
  <2> QED
    BY <2>1 DEF UnderLock
<1> QED
  BY <1>1, <1>2, <1>3, Zenon DEF Handle

(* While another call holds s.lock, a call neither starts a download nor   *)
(* writes or purges blocks.                                                *)
LEMMA OutsideLock ==
  ASSUME NEW h \in Handlers, Begin(h) \/ Handle(h), lock # Free, call[h].at \notin UnderLock
  PROVE  UNCHANGED known /\ UNCHANGED downloaderVars
<1>1. CASE Begin(h) \/ WaitDownload(h) \/ WaitReady(h)
  BY <1>1, Zenon DEF Begin, Repeated, PreviouslyBad, Quick, WaitDownload, WaitReady, execVars, dbVars
<1>2. CASE Locks(h)
  BY <1>2, Zenon DEF Locks, ReturnQuick, FetchParent, HaveParent, FetchHead, TryUpdate, Enter
<1>3. CASE WaitSynced(h) \/ Insert(h) \/ TryValidate(h) \/ Validate(h) \/ Refuse(h) \/ Adopt(h)
  <2>1. call[h].at \in {"wait", "insert", "accept", "verify", "validate", "update"}
    BY <1>3, Zenon DEF WaitSynced, Insert, TryValidate, Validate, Refuse, Adopt, At
  <2> QED
    BY <2>1 DEF UnderLock
<1> QED
  BY <1>1, <1>2, <1>3, Zenon DEF Handle

LEMMA HandlerSound ==
  ASSUME TypeOK, NEW h \in Handlers, Begin(h) \/ Handle(h)
  PROVE  \E c : Sound(h, c)
  BY BeginSound, HandleSound, Zenon

(* Only a handler changes a call or the lock.                              *)
LEMMA OthersCalls ==
  ASSUME [Next]_vars, ~ \E h \in Handlers : Begin(h) \/ Handle(h)
  PROVE  UNCHANGED <<call, lock>>
  BY Zenon DEF Next, Download, SetHeaderToDownloadPoS, SetHeadersCollector, SetPosStatus,
     WaitForEndOfHeadersDownload, LoadBlocks, InsertTip, StopDownload, TryValidateTip, ValidateTip,
     PoSLoop, RequestHeaders, CleanUpPoSDownload, FinishForkChoice, Stop, ProcessHeadersPOS, vars

(* A call that is past the lock holds it.                                  *)
LEMMA LockStep ==
  ASSUME TypeOK, LockInv, [Next]_vars
  PROVE  LockInv'
<1>1. ASSUME NEW h \in Handlers, Begin(h) \/ Handle(h) PROVE LockInv'
  <2>1. PICK c : Sound(h, c)
    BY <1>1, HandlerSound, Zenon
  <2>2. Becomes(h, c)
        /\ (c.at \in UnderLock => lock' = h \/ (lock' = lock /\ call[h].at \in UnderLock))
    BY <2>1, Zenon DEF Sound
  <2>3. lock' = lock \/ lock = Free \/ call[h].at \in UnderLock
    BY <1>1, LockMoves, Zenon
  <2>4. ASSUME NEW g \in Handlers, g # h, call'[g].at \in UnderLock PROVE lock' = g
    <3>1. call[g].at \in UnderLock
      BY <2>2, <2>4, Zenon DEF Becomes
    <3>2. lock = g
      BY <3>1, Zenon DEF LockInv
    <3>3. g # Free
      BY NamesAssumption, Zenon
    <3>4. call[h].at \notin UnderLock
      BY <2>4, <3>2, Zenon DEF LockInv
    <3> QED
      BY <2>3, <3>2, <3>3, <3>4, Zenon
  <2>5. call'[h].at \in UnderLock => lock' = h
    BY <2>2, Zenon DEF Becomes, LockInv
  <2> QED
    BY <2>4, <2>5, Zenon DEF LockInv
<1>2. ASSUME UNCHANGED <<call, lock>> PROVE LockInv'
  BY <1>2, Zenon DEF LockInv
<1> QED
  BY <1>1, <1>2, OthersCalls, Zenon

(* The head, and the one to be set in the background, are valid.           *)
LEMMA HeadStep ==
  ASSUME TypeOK, HeadInv, [Next]_vars
  PROVE  HeadInv'
<1>k. kind' = kind
  BY Fixed, Zenon
<1>v. ASSUME NEW b PROVE (b = head' => (Invalid(head)' <=> Invalid(b)))
                         /\ (b = pending' => (Invalid(pending)' <=> Invalid(b)))
  BY <1>k DEF Invalid, Defective
<1>1. ASSUME UNCHANGED <<head, pending>> PROVE HeadInv'
  BY <1>v, <1>1 DEF HeadInv
<1>2. ASSUME NEW h \in Handlers, Adopt(h) PROVE HeadInv'
  <2>1. \/ head' = call[h].block /\ pending' = NoBlock
        \/ head' = head /\ pending' = call[h].block
    BY <1>2, Zenon DEF Adopt
  <2>2. ~Invalid(call[h].block)
    BY <1>2, Zenon DEF Adopt
  <2> QED
    BY <1>v, <2>1, <2>2 DEF HeadInv
<1>3. CASE FinishForkChoice
  <2>1. pending' = NoBlock /\ head' = IF pending = NoBlock THEN head ELSE pending
    BY <1>3, Zenon DEF FinishForkChoice
  <2> QED
    BY <1>v, <2>1 DEF HeadInv
<1>4. ASSUME NEW h \in Handlers, Begin(h) \/ Handle(h), ~Adopt(h) PROVE UNCHANGED <<head, pending>>
  BY <1>4, Zenon DEF Begin, Repeated, PreviouslyBad, Quick, Handle, WaitDownload, WaitReady, Locks,
     ReturnQuick, FetchParent, HaveParent, FetchHead, TryUpdate, WaitSynced, Insert, InsertBlocks,
     TryValidate, Validate, Validated, Refuse, execVars, dbVars
<1>5. ASSUME Download \/ PoSLoop \/ Stop \/ (\E lo \in Blocks : ProcessHeadersPOS(lo))
             \/ UNCHANGED vars
      PROVE  UNCHANGED <<head, pending>>
  BY <1>5, Zenon DEF Download, SetHeaderToDownloadPoS, SetHeadersCollector, SetPosStatus,
     WaitForEndOfHeadersDownload, LoadBlocks, InsertTip, InsertBlocks, StopDownload, TryValidateTip,
     ValidateTip, Validated, PoSLoop, RequestHeaders, CleanUpPoSDownload, Stop, ProcessHeadersPOS,
     vars, execVars, dbVars
<1> QED
  BY <1>1, <1>2, <1>3, <1>4, <1>5, Zenon DEF Next

(* A wait goes on while its download and the blocks stay as they are.      *)
LEMMA WaitStays ==
  ASSUME NEW g \in Handlers, Waiting(g), kind' = kind, call'[g] = call[g],
         UNCHANGED downloaderVars, known' = known
  PROVE  Waiting(g)'
  BY DEF Waiting, downloaderVars, Invalid, Defective

(* A wait that ended without success, or whose download goes on.           *)
LEMMA WaitIdle ==
  ASSUME NEW g \in Handlers, DownloadEnds("Idle")
  PROVE  Waiting(g)'
  BY DEF DownloadEnds, Waiting

LEMMA WaitGoesOn ==
  ASSUME TypeOK, NEW g \in Handlers, Waiting(g), status = "Syncing", call'[g] = call[g],
         NEW place, DownloadGoesTo(place),
         place \in {"verify", "validate"} => download.tip \in known'
  PROVE  Waiting(g)'
<1>1. /\ download'.at = place /\ download'.hash = download.hash
      /\ download'.tip = download.tip /\ status' = status
  BY DownloadFields, Zenon
<1>2. download.tip = call[g].block /\ download.hash = call[g].block - 1
  BY DEF Waiting
<1> QED
  BY <1>1, <1>2 DEF Waiting

(* A handler that waits for its download keeps s.lock, and the download it *)
(* waits for is its own until it ends: Synced then says that the block was *)
(* validated.                                                              *)
LEMMA WaitStep ==
  ASSUME ~SetupRaces, \A c \in Chains : \A b \in 2..N : c[b] # "oversize",
         TypeOK, TipInv, DownloadInv, LockInv, WaitInv, [Next]_vars
  PROVE  WaitInv'
<1>k. kind' = kind
  BY Fixed, Zenon
<1>w. \A g \in Handlers : call[g].at = "wait" => Waiting(g)
  BY DEF WaitInv
<1>1. ASSUME NEW h \in Handlers, Begin(h) \/ Handle(h) PROVE WaitInv'
  <2>1. PICK c : Sound(h, c)
    BY <1>1, HandlerSound, Zenon
  <2>2. Becomes(h, c) /\ (c.at = "wait" => FetchParent(h) /\ status # "Syncing")
    BY <2>1, Zenon DEF Sound
  <2>3. ASSUME call'[h].at = "wait" PROVE Waiting(h)'
    <3>1. FetchParent(h) /\ status # "Syncing"
      BY <2>2, <2>3, Zenon DEF Becomes
    <3>2. GoTo(h, "wait") /\ StartDownloading(call[h].block - 1, call[h].block)
      BY <3>1, Zenon DEF FetchParent
    <3>3. call'[h].block = call[h].block
      <4>1. "wait" \in Places
        BY PlacesAre
      <4>2. Becomes(h, Moved(h, "wait"))
        BY <3>2, <4>1, GoToIs, Zenon DEF Moved
      <4>3. Moved(h, "wait").block = call[h].block
        BY MovedIs, Zenon
      <4> QED
        BY <4>2, <4>3, Zenon DEF Becomes
    <3>4. status' = "Syncing"
          /\ download' = [at |-> "schedule", hash |-> call[h].block - 1, tip |-> call[h].block]
      BY <3>1, <3>2, Zenon DEF StartDownloading
    <3>5. download'.at = "schedule" /\ download'.hash = call[h].block - 1
          /\ download'.tip = call[h].block
      BY <3>4
    <3> QED
      BY <3>3, <3>4, <3>5 DEF Waiting
  <2>4. ASSUME NEW g \in Handlers, g # h, call'[g].at = "wait" PROVE Waiting(g)'
    <3>1. call'[g] = call[g] /\ call[g].at = "wait"
      BY <2>2, <2>4, Zenon DEF Becomes
    <3>2. call[g].at \in UnderLock
      BY <3>1 DEF UnderLock
    <3>3. lock = g /\ g # Free
      BY <3>2, NamesAssumption, Zenon DEF LockInv
    <3>4. call[h].at \notin UnderLock
      BY <2>4, <3>3, Zenon DEF LockInv
    <3>5. known' = known /\ UNCHANGED downloaderVars
      BY <1>1, <3>3, <3>4, OutsideLock, Zenon
    <3> QED
      BY <1>k, <1>w, <3>1, <3>5, WaitStays, Zenon
  <2> QED
    BY <2>3, <2>4, Zenon DEF WaitInv
<1>2. ASSUME call' = call, UNCHANGED downloaderVars, known' = known PROVE WaitInv'
  <2> SUFFICES ASSUME NEW g \in Handlers, call'[g].at = "wait" PROVE Waiting(g)'
    BY DEF WaitInv
  <2> QED
    BY <1>k, <1>w, <1>2, WaitStays, Zenon
<1>3. CASE Download
  <2> SUFFICES ASSUME NEW g \in Handlers, call'[g].at = "wait" PROVE Waiting(g)'
    BY DEF WaitInv
  <2>1. call' = call
    BY <1>3, Zenon DEF Download, SetHeaderToDownloadPoS, SetHeadersCollector, SetPosStatus,
       WaitForEndOfHeadersDownload, LoadBlocks, InsertTip, StopDownload, TryValidateTip, ValidateTip
  <2>2. Waiting(g) /\ call'[g] = call[g]
    BY <1>w, <2>1, Zenon
  <2>3. download.at # "off"
    BY <1>3 DEF Download, DownloadAt, SetHeaderToDownloadPoS, SetHeadersCollector, SetPosStatus,
       WaitForEndOfHeadersDownload, LoadBlocks, InsertTip, StopDownload, TryValidateTip, ValidateTip
  <2>4. status = "Syncing"
    BY <2>3 DEF DownloadInv, Running
  <2>5. /\ download.tip = call[g].block /\ download.hash = call[g].block - 1
        /\ download.at \in {"verify", "validate"} => download.tip \in known
    BY <2>2, <2>4 DEF Waiting
  <2>6. download.tip \in Blocks /\ download.tip # NoBlock
    <3>1. call[g].block \in Blocks
      BY CallIs, Zenon
    <3> QED
      BY <2>5, <3>1, BlockIs DEF NoBlock
  <2>7. CASE DownloadEnds("Idle")
    BY <2>7, WaitIdle, Zenon
  <2>8. ASSUME NEW place \in {"collector", "start", "wait", "load", "tip"}, DownloadGoesTo(place)
        PROVE  Waiting(g)'
    <3>1. place \notin {"verify", "validate"}
      BY <2>8
    <3> QED
      BY <2>2, <2>4, <2>8, <3>1, WaitGoesOn, Zenon
  <2>9. CASE InsertTip
    <3>1. download.at = "tip" /\ InsertBlocks({download.tip}) /\ DownloadGoesTo("verify")
      BY <2>9, Zenon DEF InsertTip, DownloadAt
    <3>2. download.hash \in td /\ download.hash \in Blocks
      BY <3>1 DEF DownloadInv, Stored, Asked
    <3>3. download.tip \in 2..N /\ download.tip - 1 = download.hash
      BY <2>5, <2>6, <3>2, EngineAssumption DEF Blocks
    <3>4. kind[download.tip] # "oversize"
      BY <3>3, Zenon DEF TypeOK
    <3>5. Insertable({download.tip})
      BY <3>2, <3>3, <3>4, Zenon DEF Insertable, HasTd
    <3>6. download.tip \in known'
      BY <3>1, <3>5 DEF InsertBlocks
    <3> QED
      BY <2>2, <2>4, <3>1, <3>6, WaitGoesOn, Zenon
  <2>10. CASE TryValidateTip
    <3>1. CASE DownloadGoesTo("validate")
      <4>1. download.at = "verify" /\ known' = known
        BY <2>10, Zenon DEF TryValidateTip, DownloadAt, dbVars
      <4>2. download.tip \in known'
        BY <2>5, <4>1
      <4> QED
        BY <2>2, <2>4, <3>1, <4>2, WaitGoesOn, Zenon
    <3> QED
      BY <2>7, <2>10, <3>1, Zenon DEF TryValidateTip
  <2>11. CASE ValidateTip
    <3>1. download.at = "validate"
      BY <2>11, Zenon DEF ValidateTip, DownloadAt
    <3>2. download.tip \in known
      BY <2>5, <3>1
    <3>3. PICK v \in ValidateChain(download.tip) :
            DownloadEnds(IF v.status \in {"Success", "MissingSegment"} THEN "Synced" ELSE "Idle")
      BY <2>11, Zenon DEF ValidateTip
    <3>4. v.status # "MissingSegment" /\ (v.status = "Success" => ~Invalid(download.tip))
      BY <2>6, <3>2, VerdictIs, Zenon
    <3>5. CASE v.status = "Success"
      <4>1. status' = "Synced"
        BY <3>3, <3>5 DEF DownloadEnds
      <4>2. ~Invalid(call[g].block)
        BY <2>5, <3>4, <3>5
      <4> QED
        BY <1>k, <2>2, <4>1, <4>2 DEF Waiting, Invalid, Defective
    <3>6. CASE v.status # "Success"
      BY <2>7, <3>3, <3>4, <3>6
    <3> QED
      BY <3>5, <3>6
  <2>12. CASE LoadBlocks
    BY <2>6, <2>7, <2>8, <2>12 DEF LoadBlocks
  <2>13. CASE SetHeaderToDownloadPoS \/ SetHeadersCollector \/ SetPosStatus
              \/ WaitForEndOfHeadersDownload \/ StopDownload
    BY <2>7, <2>8, <2>13 DEF SetHeaderToDownloadPoS, SetHeadersCollector, SetPosStatus,
       WaitForEndOfHeadersDownload, StopDownload
  <2> QED
    BY <1>3, <2>9, <2>10, <2>11, <2>12, <2>13, Zenon DEF Download
<1>4. CASE PoSLoop \/ FinishForkChoice \/ Stop \/ (\E lo \in Blocks : ProcessHeadersPOS(lo))
           \/ UNCHANGED vars
  <2>1. call' = call /\ UNCHANGED downloaderVars /\ known' = known
    BY <1>4, Zenon DEF PoSLoop, RequestHeaders, CleanUpPoSDownload, FinishForkChoice, Stop,
       ProcessHeadersPOS, vars, execVars, dbVars
  <2> QED
    BY <1>2, <2>1
<1> QED
  BY <1>1, <1>3, <1>4, Zenon DEF Next

LEMMA ValidStep ==
  ASSUME ~SetupRaces, \A c \in Chains : \A b \in 2..N : c[b] # "oversize",
         TypeOK, TipInv, DownloadInv, ValidInv, [Next]_vars
  PROVE  ValidInv'
<1>0. LockInv /\ HeadInv /\ WaitInv /\ \A h \in Handlers : ValidRight(call[h])
  BY DEF ValidInv
<1>1. LockInv' /\ HeadInv' /\ WaitInv'
  BY <1>0, LockStep, HeadStep, WaitStep, Zenon
<1>k. kind' = kind
  BY Fixed, Zenon
<1>2. ASSUME \A g \in Handlers : ValidRight(call'[g])
      PROVE  (\A g \in Handlers : ValidRight(call[g]))'
  BY <1>k, <1>2 DEF ValidRight, Invalid, Defective
<1>3. ASSUME NEW h \in Handlers, Begin(h) \/ Handle(h)
      PROVE  \A g \in Handlers : ValidRight(call'[g])
  <2>1. PICK c : Sound(h, c)
    BY <1>3, HandlerSound, Zenon
  <2>2. call[h].at = "wait" => Waiting(h)
    BY <1>0, Zenon DEF WaitInv
  <2>3. ValidRight(c) /\ Becomes(h, c)
    BY <1>0, <2>1, <2>2, Zenon DEF Sound
  <2> QED
    BY <1>0, <2>3, Zenon DEF Becomes
<1>4. ASSUME UNCHANGED <<call, lock>> PROVE \A g \in Handlers : ValidRight(call'[g])
  BY <1>0, <1>4, Zenon
<1>5. (\A g \in Handlers : ValidRight(call[g]))'
  BY <1>2, <1>3, <1>4, OthersCalls, Zenon
<1> QED
  BY <1>1, <1>5, Zenon DEF ValidInv

(* VALID is answered only for a block that is valid with its ancestors,    *)
(* also when it was downloaded and verified by the downloader, whose       *)
(* Synced HandleNewPayload trusts (engine_server.go:752-866): the waiting  *)
(* call holds s.lock, so the download is its own.  This needs that only    *)
(* the first block may be too large to be inserted, since a tip that the   *)
(* downloader could not insert counts as validated.                        *)
THEOREM ValidAlwaysValid ==
  ASSUME ~SetupRaces, \A c \in Chains : \A b \in 2..N : c[b] # "oversize"
  PROVE  Spec => []ValidIsValid
<1>1. Init => DownloadInv /\ ValidInv
  <2>1. Init => DownloadInv
    BY DEF Init, DownloadInv, Running, Asked, Collected, Stored
  <2>2. Init => LockInv /\ WaitInv
    BY DEF Init, LockInv, WaitInv, UnderLock
  <2>3. Init => HeadInv
    BY GenesisValid DEF Init, HeadInv
  <2>4. Init => \A h \in Handlers : ValidRight(call[h])
    BY DEF Init, ValidRight
  <2> QED
    BY <2>1, <2>2, <2>3, <2>4 DEF ValidInv
<1>2. TypeOK /\ TipInv /\ DownloadInv /\ ValidInv /\ [Next]_vars => DownloadInv' /\ ValidInv'
  BY DownloadStep, ValidStep, Zenon
<1>3. ValidInv => ValidIsValid
  BY Zenon DEF ValidInv, ValidRight, ValidIsValid
<1> QED
  BY <1>1, <1>2, <1>3, TypeCorrect, PTL DEF Spec

=============================================================================
