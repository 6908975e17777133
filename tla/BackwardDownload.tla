-------------------------- MODULE BackwardDownload --------------------------
(***************************************************************************)
(* The second version of the engine API's block downloader: bbd, which     *)
(* fetches a chain of headers backwards from peers and then its bodies     *)
(* forwards (execution/bbd/backward_block_downloader.go), and the consumer *)
(* of its result feed (downloadV2 of engine_block_downloader/core.go).     *)
(*                                                                         *)
(*   producer  fetchBlocksBackwardsByHash: the initial header from all     *)
(*             peers, batches of headers from one peer after the other,    *)
(*             batches of bodies from several peers at once                *)
(*   consumer  downloadBlocksV2: inserts what is fed, executes it in       *)
(*             between for a fork choice, then inserts and validates the   *)
(*             tip                                                         *)
(*                                                                         *)
(* The chain is 0..Hash; a number stands for a header, a block or a hash.  *)
(* A part of it from 0 on is known.  A fetch, with its retries, succeeds   *)
(* or fails; a peer that failed is exhausted and not asked again.          *)
(***************************************************************************)
EXTENDS Integers, Sequences, FiniteSets, FiniteSetsExt

CONSTANTS
  Hash,            \* the block that is asked for; the tip is the next one
  Locals,          \* of these one is the highest block that is known
  Heads,           \* numbers of the current head, perhaps of another fork
  PeerCount,
  BlocksBatchSize, \* config.blocksBatchSize, at most LoopBlockLimit
  MaxParallel,     \* config.maxParallelBodyDownloads
  LoopBlockLimit,
  MaxReorgDepth,
  FirstBads        \* where the chain may begin to be bad; Hash + 2: nowhere

ASSUME BackwardAssumption ==
  /\ Hash \in Nat \ {0} /\ Locals \subseteq 0..(Hash - 1) /\ Heads \subseteq Nat
  /\ PeerCount \in Nat \ {0} /\ MaxParallel \in Nat \ {0}
  /\ LoopBlockLimit \in Nat \ {0} /\ BlocksBatchSize \in 1..LoopBlockLimit
  /\ MaxReorgDepth \in Nat \ {0}
  /\ FirstBads \subseteq 1..(Hash + 2)

Triggers == {"fcu", "newPayload", "segment"}
Peers == 0..(PeerCount - 1)
Tip == Hash + 1

VARIABLES
  trigger,    \* BackwardDownloadRequest.Trigger
  firstBad,   \* the first block that cannot be executed
  exhausted,  \* peersContext.exhaustedPeers, shared by its copies
  producer,   \* fetchBlocksBackwardsByHash: see Producer
  consumer,   \* downloadV2: see Consumer
  cancelled,  \* the context of the feed
  stopping,   \* the context of the node
  known,      \* blocks of the database
  head,       \* the number of the current head
  badHeaders  \* badPoSHeaders: blocks reported bad

vars == <<trigger, firstBad, exhausted, producer, consumer, cancelled, stopping, known, head, badHeaders>>
dbVars == <<known, head, badHeaders>>

\* Where it is; the next peer of its copy of peersContext; the lowest header
\* collected; the first header of the batch in work, in how many parts its
\* bodies are fetched, of which peers, and the parts that are there.
Producer == [at : {"initial", "headers", "load", "bodies", "feed", "end", "error", "closed"},
             index : Peers, last : 1..Hash, low : 1..(Hash + 1),
             parts : 0..BlocksBatchSize, available : Seq(Peers), got : SUBSET (1..BlocksBatchSize)]

\* Where it is, with the status of the downloader once it has ended; the
\* blocks it took from the feed; how many were inserted and not executed.
Consumer == [at : {"next", "insert", "exec", "update", "tip", "validate", "Idle", "Synced"},
             blocks : SUBSET (1..Hash), unexecuted : 0..(Hash + 1)]

TypeOK ==
  /\ trigger \in Triggers /\ firstBad \in FirstBads
  /\ exhausted \subseteq Peers
  /\ producer \in Producer
  /\ \A i, j \in DOMAIN producer.available :
       producer.available[i] = producer.available[j] => i = j
  /\ consumer \in Consumer
  /\ cancelled \in BOOLEAN /\ stopping \in BOOLEAN
  /\ known \subseteq 0..Tip /\ head \in Nat /\ badHeaders \subseteq 1..Tip

Init ==
  /\ trigger \in Triggers /\ firstBad \in FirstBads
  /\ exhausted = {}
  /\ producer = [at |-> "initial", index |-> 0, last |-> Hash, low |-> 1,
                 parts |-> 0, available |-> <<>>, got |-> {}]
  /\ consumer = [at |-> "next", blocks |-> {}, unexecuted |-> 0]
  /\ cancelled = FALSE /\ stopping = FALSE
  /\ \E l \in Locals : known = 0..l /\ firstBad > l
  /\ head \in Heads /\ badHeaders = {}
-----------------------------------------------------------------------------
(***************************************************************************)
(* peersContext.                                                           *)
(***************************************************************************)
Distance(index, p) == (p - index + PeerCount) % PeerCount

\* nextAvailablePeer, called k times: the k-th peer from index on that is not
\* exhausted.
AvailablePeer(E, index, k) ==
  CHOOSE p \in Peers \ E :
    Cardinality({q \in Peers \ E : Distance(index, q) <= Distance(index, p)}) = k

After(p) == (p + 1) % PeerCount

\* nextAvailablePeers: n peers, or all those left once the rotation has come to
\* the first of them again.
NextAvailablePeers(E, index, n) ==
  [k \in 1..Min({n, PeerCount - Cardinality(E)}) |-> AvailablePeer(E, index, k)]

IndexAfter(E, index, n) ==
  After(AvailablePeer(E, index, IF n <= PeerCount - Cardinality(E) THEN n ELSE 1))
-----------------------------------------------------------------------------
(***************************************************************************)
(* The producer.                                                           *)
(***************************************************************************)
CeilDiv(a, b) == (a + b - 1) \div b

ChainLengthLimit ==
  CASE trigger = "newPayload" -> MaxReorgDepth
    [] trigger = "segment"    -> LoopBlockLimit
    [] OTHER                  -> Hash + 1     \* unlimited

ChainLen == Hash - producer.last + 1

TooLong == ChainLen >= ChainLengthLimit

ProducerGoes(place) == producer' = [producer EXCEPT !.at = place]

\* downloadInitialHeader: all peers are asked, some do not have the header.
DownloadInitialHeader ==
  /\ producer.at = "initial"
  /\ \E E \in SUBSET Peers :
       /\ exhausted' = E
       /\ ProducerGoes(IF \/ E = Peers
                          \/ /\ trigger = "newPayload"
                             /\ head > Hash /\ head - Hash >= ChainLengthLimit
                       THEN "error" ELSE "headers")
  /\ UNCHANGED <<trigger, firstBad, consumer, cancelled, stopping, dbVars>>

\* The headers of a batch are collected from the highest down to the first
\* whose parent is known.  The initial header's own parent is not looked at.
Connects(b) == b - 1 \in known
Collected(amount) ==
  LET top == producer.last - 1
      links == {b \in (top - amount + 1)..top : Connects(b)}
  IN  IF links = {} THEN top - amount + 1 ELSE Max(links)

\* One turn of the loop of downloadHeaderChainBackwards.
DownloadHeaders ==
  LET amount == Min({producer.last - 1, BlocksBatchSize})
      peer == AvailablePeer(exhausted, producer.index, 1)
  IN  /\ producer.at = "headers"
      /\ \/ /\ TooLong \/ (amount > 0 /\ exhausted = Peers)
            /\ ProducerGoes("error") /\ UNCHANGED exhausted
         \/ /\ ~TooLong /\ amount = 0
            /\ producer' = [producer EXCEPT !.at = "load", !.low = producer.last]
            /\ UNCHANGED exhausted
         \/ /\ ~TooLong /\ amount > 0 /\ exhausted # Peers
            /\ \/ /\ exhausted' = exhausted \cup {peer}
                  /\ producer' = [producer EXCEPT !.index = After(peer)]
               \/ LET last == Collected(amount)
                  IN  /\ producer' = [producer EXCEPT !.index = After(peer),
                                        !.last = last, !.low = last,
                                        !.at = IF Connects(last) THEN "load" ELSE "headers"]
                      /\ UNCHANGED exhausted
      /\ UNCHANGED <<trigger, firstBad, consumer, cancelled, stopping, dbVars>>

High == Min({producer.low + BlocksBatchSize - 1, Hash})
Count == High - producer.low + 1

\* downloadBlocksForHeaders up to its loop: the headers are split into as many
\* parts as peers can be asked at once.  It has a fresh copy of peersContext.
SplitHeaders ==
  LET needed == Min({Count, MaxParallel})
      peers == NextAvailablePeers(exhausted, 0, needed)
      size == CeilDiv(Count, Len(peers))
  IN  /\ producer.at = "load"
      /\ IF exhausted = Peers THEN ProducerGoes("error")
         ELSE producer' = [producer EXCEPT !.at = "bodies", !.available = peers,
                             !.parts = CeilDiv(Count, size), !.got = {},
                             !.index = IndexAfter(exhausted, 0, needed)]
      /\ UNCHANGED <<trigger, firstBad, exhausted, consumer, cancelled, stopping, dbVars>>

\* The parts that this round asks for: open ones, in order, one for each peer.
Open == (1..producer.parts) \ producer.got
Assigned == {b \in Open : Cardinality({a \in Open : a <= b}) <= Len(producer.available)}
PeerOf(b) == producer.available[Cardinality({a \in Open : a <= b})]

\* Mutant: the loop ends when one part is left (incompleteBatches > 1).
DownloadBodiesOneLeft ==
  /\ producer.at = "bodies"
  /\ \E failed \in SUBSET Assigned :
       LET E == exhausted \cup {PeerOf(b) : b \in failed}
           got == producer.got \cup (Assigned \ failed)
           incomplete == Cardinality(failed)
       IN  /\ exhausted' = E
           /\ IF incomplete <= 1 THEN producer' = [producer EXCEPT !.at = "feed", !.got = got]
              ELSE IF E = Peers THEN ProducerGoes("error")
              ELSE producer' = [producer EXCEPT !.got = got,
                                  !.available = NextAvailablePeers(E, producer.index, incomplete),
                                  !.index = IndexAfter(E, producer.index, incomplete)]
  /\ UNCHANGED <<trigger, firstBad, consumer, cancelled, stopping, dbVars>>

\* A round of the loop.  It ends the loop when all it asked for is there.
DownloadBodies ==
  /\ producer.at = "bodies"
  /\ \E failed \in SUBSET Assigned :
       LET E == exhausted \cup {PeerOf(b) : b \in failed}
           got == producer.got \cup (Assigned \ failed)
           incomplete == Cardinality(failed)
       IN  /\ exhausted' = E
           /\ IF failed = {} THEN producer' = [producer EXCEPT !.at = "feed", !.got = got]
              ELSE IF E = Peers THEN ProducerGoes("error")
              ELSE producer' = [producer EXCEPT !.got = got,
                                  !.available = NextAvailablePeers(E, producer.index, incomplete),
                                  !.index = IndexAfter(E, producer.index, incomplete)]
  /\ UNCHANGED <<trigger, firstBad, consumer, cancelled, stopping, dbVars>>

\* The blocks of the parts that are there; what is missing leaves no trace.
Blocks ==
  {b \in producer.low..High :
     ((b - producer.low) \div CeilDiv(Count, producer.parts)) + 1 \in producer.got}

\* Mutant: the remaining incomplete header batch is not downloaded.
NextBatchFullOnly ==
  [producer EXCEPT !.low = High + 1, !.parts = 0, !.available = <<>>, !.got = {},
                   !.at = IF High + BlocksBatchSize <= Hash THEN "load" ELSE "end"]

\* After a batch: the next one, or the end, which is an empty batch if the
\* last batch was a full one.
NextBatch ==
  [producer EXCEPT !.low = High + 1, !.parts = 0, !.available = <<>>, !.got = {},
                   !.at = IF High < Hash THEN "load"
                          ELSE IF Count = BlocksBatchSize THEN "end" ELSE "closed"]

\* The context is done: a select, a fetch or the load sees it.
Abort ==
  /\ cancelled \/ stopping
  /\ producer.at # "closed"
  /\ ProducerGoes("closed")
  /\ UNCHANGED <<trigger, firstBad, exhausted, consumer, cancelled, stopping, dbVars>>
-----------------------------------------------------------------------------
(***************************************************************************)
(* The consumer.                                                           *)
(***************************************************************************)
ConsumerGoes(place) == consumer' = [consumer EXCEPT !.at = place]

\* Mutant: the context is not cancelled.
EndFeedUncancelled(ok) ==
  /\ ConsumerGoes(IF ~ok THEN "Idle" ELSE IF trigger = "fcu" THEN "Synced" ELSE "tip")
  /\ UNCHANGED cancelled

\* downloadBlocksV2 returns, with its context cancelled; without an error the
\* tip follows, which a fork choice does not have.
EndFeed(ok) ==
  /\ ConsumerGoes(IF ~ok THEN "Idle" ELSE IF trigger = "fcu" THEN "Synced" ELSE "tip")
  /\ cancelled' = TRUE

\* feed.Next: a batch, an error, the empty batch or the closed channel.
ReceiveBlocks ==
  /\ consumer.at = "next" /\ producer.at = "feed"
  /\ consumer' = [consumer EXCEPT !.at = "insert", !.blocks = Blocks]
  /\ producer' = NextBatch
  /\ UNCHANGED <<trigger, firstBad, exhausted, cancelled, stopping, dbVars>>

ReceiveEnd ==
  /\ consumer.at = "next" /\ producer.at \in {"end", "error", "closed"}
  /\ EndFeed(producer.at # "error")
  /\ ProducerGoes("closed")
  /\ UNCHANGED <<trigger, firstBad, exhausted, stopping, dbVars>>

\* InsertBlocksAndWait: all blocks, or none if the parent of one is missing.
Insertable(S) == \A b \in S : b - 1 \in known \cup S

InsertBlocks ==
  LET unexecuted == consumer.unexecuted + Cardinality(consumer.blocks)
  IN  /\ consumer.at = "insert"
      /\ \/ /\ ~Insertable(consumer.blocks)
            /\ EndFeed(FALSE) /\ UNCHANGED known
         \/ /\ Insertable(consumer.blocks)
            /\ known' = known \cup consumer.blocks
            /\ consumer' = [consumer EXCEPT !.unexecuted = unexecuted,
                 !.at = IF trigger = "fcu" /\ unexecuted >= LoopBlockLimit THEN "exec" ELSE "next"]
            /\ UNCHANGED cancelled
      /\ UNCHANGED <<trigger, firstBad, exhausted, producer, stopping, head, badHeaders>>

\* ValidateChain: a bad chain is purged.
Invalid(b) == b >= firstBad
Statuses(b) == {"Busy", "TooFarAway", IF Invalid(b) THEN "BadBlock" ELSE "Success"}
Purge(b, st) == known' = IF st = "BadBlock" THEN known \ (firstBad..b) ELSE known

\* execDownloadedBatch up to the fork choice.
ValidateBatch ==
  LET b == Max(consumer.blocks)
  IN  /\ consumer.at = "exec"
      /\ \E st \in Statuses(b) :
           /\ Purge(b, st)
           /\ badHeaders' = IF st = "BadBlock" THEN badHeaders \cup {b, Hash} ELSE badHeaders
           /\ IF st \in {"TooFarAway", "Success"} THEN ConsumerGoes("update") /\ UNCHANGED cancelled
              ELSE EndFeed(FALSE)
      /\ UNCHANGED <<trigger, firstBad, exhausted, producer, stopping, head>>

\* UpdateForkChoice without a timeout; it may find the semaphore taken.
UpdateForkChoice ==
  LET b == Max(consumer.blocks)
  IN  /\ consumer.at = "update"
      /\ \/ /\ ~Invalid(b) /\ head' = b
            /\ consumer' = [consumer EXCEPT !.at = "next", !.unexecuted = 0]
            /\ UNCHANGED cancelled
         \/ EndFeed(FALSE) /\ UNCHANGED head
      /\ UNCHANGED <<trigger, firstBad, exhausted, producer, stopping, known, badHeaders>>

InsertTip ==
  /\ consumer.at = "tip"
  /\ IF Insertable({Tip}) THEN known' = known \cup {Tip} /\ ConsumerGoes("validate")
     ELSE ConsumerGoes("Idle") /\ UNCHANGED known
  /\ UNCHANGED <<trigger, firstBad, exhausted, producer, cancelled, stopping, head, badHeaders>>

ValidateTip ==
  /\ consumer.at = "validate"
  /\ \E st \in Statuses(Tip) :
       /\ Purge(Tip, st)
       /\ badHeaders' = IF st = "BadBlock" THEN badHeaders \cup {Tip} ELSE badHeaders
       /\ ConsumerGoes(IF st = "BadBlock" THEN "Idle" ELSE "Synced")
  /\ UNCHANGED <<trigger, firstBad, exhausted, producer, cancelled, stopping, head>>

\* The node is stopped: any wait or call of the consumer returns an error.
Stop ==
  /\ ~stopping /\ stopping' = TRUE
  /\ UNCHANGED <<trigger, firstBad, exhausted, producer, consumer, cancelled, dbVars>>

StopConsumer ==
  /\ stopping /\ consumer.at \notin {"Idle", "Synced"}
  /\ ConsumerGoes("Idle") /\ cancelled' = TRUE
  /\ UNCHANGED <<trigger, firstBad, exhausted, producer, stopping, dbVars>>
-----------------------------------------------------------------------------
Produce == DownloadInitialHeader \/ DownloadHeaders \/ SplitHeaders \/ DownloadBodies \/ Abort
Consume ==
  \/ ReceiveBlocks \/ ReceiveEnd \/ InsertBlocks \/ ValidateBatch \/ UpdateForkChoice
  \/ InsertTip \/ ValidateTip \/ StopConsumer

Next == Produce \/ Consume \/ Stop

Spec == Init /\ [][Next]_vars /\ WF_vars(Produce) /\ WF_vars(Consume)
-----------------------------------------------------------------------------
(***************************************************************************)
(* Properties.                                                             *)
(***************************************************************************)
Ended == consumer.at \in {"Idle", "Synced"}
MostPeersServe == 2 * Cardinality(exhausted) <= PeerCount

\* As long as no more than half of the peers have failed, a batch is not fed
\* before each of its parts was fetched, however the failures fall on the
\* rounds (downloadBlocksForHeaders counts only the parts of the last round).
BatchIsComplete == producer.at = "feed" /\ MostPeersServe => Open = {}

\* The downloader is Synced only if it has the block that was asked for and the
\* tip of the request.  With a tip this is so whatever the peers do, for the tip
\* is not inserted without its parent.  A fork choice has no tip, and needs peers
\* of which no more than half fail, and a node that is not being stopped (then
\* feed.Next may take the closed channel for the end of the feed).
Requested == {Hash} \cup (IF trigger = "fcu" THEN {} ELSE {Tip})
SyncedMeansHave ==
  /\ consumer.at = "Synced"
  /\ trigger = "fcu" => MostPeersServe /\ ~stopping
  => Requested \subseteq known

\* A batch is never fed when a part is missing ("download from available peers
\* until all batches are downloaded").
NothingLeftOut == producer.at = "feed" => Open = {}

\* The download ends, with its producer: neither waits on the feed forever.
DownloadEnds == <>(Ended /\ producer.at = "closed")
=============================================================================
