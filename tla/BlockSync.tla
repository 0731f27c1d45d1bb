------------------------------ MODULE BlockSync ------------------------------
(***************************************************************************)
(* A sync session once its peer's headers outweigh our chain (sync.rs,     *)
(* BlockSync; node.rs, "Sync: blocks"): ranges of blocks are asked of      *)
(* every peer that has them, arrive in any order, cut short, wrong or not  *)
(* at all, wait in a buffer for their turn, are applied by a task one      *)
(* chunk at a time, and are stored as the chain they make gets heavier.    *)
(*                                                                         *)
(* Heights are counted from the fork.  A block weighs one byte.            *)
(* schedule_batch_requests asks for one range after another: `loop' says   *)
(* it is running, during which nothing else of the event loop happens.     *)
(***************************************************************************)
EXTENDS Integers, Sequences, FiniteSets, FiniteSetsExt, SequencesExt

CONSTANTS
    SessionPeer,  \* whose chain this is; its headers were verified
    Helpers,      \* other peers that claim to have the blocks
    Bodies,       \* whether a helper may serve a block whose body is invalid
    Cuts,         \* whether a response may be cut short (batch_response_bytes)
    Failures,     \* whether requests expire, peers leave and storing fails
    End,          \* the height the peer's headers end at
    VerifiedAtStart, \* how many of them are verified when blocks start
    OutweighsAt,  \* the height from which the peer's chain outweighs ours: 0 if
                  \* it extends ours
    ChunkLimit,   \* MAX_GETBATCHES_COUNT (64)
    InFlightLimit,\* MAX_BATCH_REQUESTS_IN_FLIGHT (4)
    Lookahead,    \* BATCH_LOOKAHEAD_BLOCKS (512)
    BufferLimit,  \* MAX_BUFFER_BYTES, in blocks
    NoChunk

\* What the parameters are assumed to be.
BlockSyncAssumption ==
    /\ SessionPeer \notin Helpers
    /\ {Bodies, Cuts, Failures} \subseteq BOOLEAN
    /\ {End, VerifiedAtStart, OutweighsAt} \subseteq Nat
    /\ VerifiedAtStart \in 1..End /\ OutweighsAt <= VerifiedAtStart
    /\ {ChunkLimit, InFlightLimit, Lookahead, BufferLimit} \subseteq Nat \ {0}
    /\ NoChunk \notin [to : Nat, stop : Nat, source : Helpers \cup {SessionPeer}]

VARIABLES
    verifiedTo,   \* headers below are verified
    kept,         \* verified headers below have left the SYNC_HEADERS table
    cursor,       \* the next height to apply
    rebuilding,   \* the state at the fork is being derived
    applying,     \* the chunk a task is applying
    committed,    \* our chain has been replaced
    buffer,       \* chunks by their first height
    buffered,     \* buffered_bytes
    inFlight,     \* requests by their first height
    retry,        \* ranges to ask for again
    nextRequest,
    excluded,     \* peers not to ask again
    loop,         \* the request loop: not running, running, or running with
                  \* maybe_finish_sync to follow
    outcome       \* how the session stands

vars == <<verifiedTo, kept, cursor, rebuilding, applying, committed, buffer,
          buffered, inFlight, retry, nextRequest, excluded, loop, outcome>>

Peers == Helpers \cup {SessionPeer}
Span(start, count) == [start |-> start, count |-> count]

Init ==
    /\ verifiedTo = VerifiedAtStart /\ kept = 0
    /\ cursor = 0 /\ nextRequest = 0
    /\ committed = (OutweighsAt = 0) /\ rebuilding = ~committed
    /\ applying = NoChunk
    /\ buffer = [k \in {} |-> NoChunk] /\ buffered = 0
    /\ inFlight = [k \in {} |-> NoChunk] /\ retry = <<>>
    /\ excluded = {} /\ loop = "serve" /\ outcome = "on"

------------------------------------------------------------------------------
Idle == loop = "off" /\ outcome = "on"

Bytes(buf, starts) == MapThenSumSet(LAMBDA k : buf[k].count, starts)
UnbufferedStays(buf, bytes, starts) == bytes
Unbuffered(buf, bytes, starts) == bytes - Bytes(buf, starts)
Without(f, keys) == [k \in DOMAIN f \ keys |-> f[k]]
With(f, k, v) == [j \in DOMAIN f \cup {k} |-> IF j = k THEN v ELSE f[j]]

(* try_apply_next on a buffer: chunks the cursor has passed are dropped, and
   the chunk at the cursor goes to a task.  The task applies its blocks one by
   one and stops at an invalid one. *)
PassedByStart(buf, at) == {k \in DOMAIN buf : \A j \in DOMAIN buf : j <= k => j < at}

Passed(buf, at) ==
    {k \in DOMAIN buf : \A j \in DOMAIN buf : j <= k => j + buf[j].count <= at}

Task(chunk, first, at) ==
    LET to == first + chunk.count
    IN  [to |-> to, source |-> chunk.source,
         stop |-> IF chunk.bad \in at..(to - 1) THEN chunk.bad ELSE to]

TryApply(buf, bytes, at) ==
    LET live == Without(buf, Passed(buf, at))
        left == Unbuffered(buf, bytes, Passed(buf, at))
        first == Min(DOMAIN live)
    IN  IF DOMAIN live # {} /\ first <= at
        THEN /\ applying' = Task(live[first], first, at)
             /\ buffer' = Without(live, {first})
             /\ buffered' = Unbuffered(live, left, {first})
        ELSE applying' = NoChunk /\ buffer' = live /\ buffered' = left

\* Applying or still deriving the fork's state, it does nothing.
MaybeApply(buf, bytes) ==
    IF applying # NoChunk \/ rebuilding
    THEN buffer' = buf /\ buffered' = bytes /\ UNCHANGED applying
    ELSE TryApply(buf, bytes, cursor)

------------------------------------------------------------------------------
\* schedule_batch_requests: the next range is one to retry, or the next not yet
\* asked for.
MayAsk == Cardinality(DOMAIN inFlight) < InFlightLimit /\ buffered < BufferLimit

Fresh ==
    IF nextRequest < verifiedTo /\ nextRequest < cursor + Lookahead
    THEN {Span(nextRequest, Min({verifiedTo - nextRequest, ChunkLimit}))}
    ELSE {}

NextSpan == IF retry # <<>> THEN {Head(retry)} ELSE Fresh

Load(p) == Cardinality({k \in DOMAIN inFlight : inFlight[k].peer = p})

\* The least loaded of the peers that have the range, ours first among equals.
CandidatesUnlessFirst == Helpers \ excluded
Candidates == (Helpers \ excluded) \cup {SessionPeer}
Best(p) ==
    /\ p \in Candidates
    /\ \A q \in Candidates :
          \/ Load(p) < Load(q)
          \/ Load(p) = Load(q) /\ (q = SessionPeer => p = SessionPeer)

Ask ==
    /\ outcome = "on" /\ loop # "off" /\ MayAsk
    /\ \E span \in NextSpan, p \in Peers :
          /\ Best(p)
          /\ inFlight' = With(inFlight, span.start, [peer |-> p, count |-> span.count])
          /\ IF retry # <<>>
             THEN retry' = Tail(retry) /\ UNCHANGED nextRequest
             ELSE nextRequest' = nextRequest + span.count /\ UNCHANGED retry
    /\ UNCHANGED <<verifiedTo, kept, cursor, rebuilding, applying, committed,
                   buffer, buffered, excluded, loop, outcome>>

\* maybe_finish_sync, when the peer has shown all its headers.
Finished ==
    /\ verifiedTo = End /\ cursor >= verifiedTo
    /\ applying = NoChunk /\ ~rebuilding

EndLoop ==
    /\ outcome = "on" /\ loop # "off"
    /\ ~MayAsk \/ NextSpan = {}
    /\ loop' = "off"
    /\ outcome' = IF loop = "finish" /\ Finished
                  THEN (IF committed THEN "done" ELSE "lighter")
                  ELSE outcome
    /\ UNCHANGED <<verifiedTo, kept, cursor, rebuilding, applying, committed,
                   buffer, buffered, inFlight, retry, nextRequest, excluded>>

\* A tick, or another peer's state (check_sync_timeouts, on_state_info).
Tick ==
    /\ Idle /\ MayAsk /\ NextSpan # {}
    /\ loop' = "serve"
    /\ UNCHANGED <<verifiedTo, kept, cursor, rebuilding, applying, committed,
                   buffer, buffered, inFlight, retry, nextRequest, excluded,
                   outcome>>

------------------------------------------------------------------------------
\* on_headers_verified: more headers are verified and stored.
MoreHeaders ==
    /\ Idle /\ verifiedTo' \in (verifiedTo + 1)..End
    /\ loop' = "finish"
    /\ UNCHANGED <<kept, cursor, rebuilding, applying, committed, buffer,
                   buffered, inFlight, retry, nextRequest, excluded, outcome>>

\* on_fork_state
ForkState ==
    /\ Idle /\ rebuilding
    /\ rebuilding' = FALSE
    /\ TryApply(buffer, buffered, cursor)
    /\ UNCHANGED <<verifiedTo, kept, cursor, committed, inFlight, retry,
                   nextRequest, excluded, loop, outcome>>

(* on_batches.  A response holds up to `count' blocks from `start'; more are
   cut off.  The session's peer, honest, answers with its chain's blocks. *)
Answered(k) == Idle /\ k \in DOMAIN inFlight /\ inFlight' = Without(inFlight, {k})

\* The verified headers are still there to hold the blocks to.
Expected(k) == k >= kept

\* The rest of a short response is asked for next.
RetryRest(k, n) ==
    IF n < inFlight[k].count
    THEN <<Span(k + n, inFlight[k].count - n)>> \o retry
    ELSE retry

AnswerGood(k) ==
    /\ Answered(k) /\ Expected(k)
    /\ \E n \in 1..inFlight[k].count, bad \in k..(k + inFlight[k].count) :
          /\ ~Cuts => n = inFlight[k].count
          /\ bad < k + n => Bodies /\ inFlight[k].peer # SessionPeer
          /\ retry' = RetryRest(k, n)
          /\ MaybeApply(With(buffer, k, [source |-> inFlight[k].peer, count |-> n,
                                         bad |-> IF bad < k + n THEN bad ELSE End]),
                        buffered + n)
    /\ loop' = "serve"
    /\ UNCHANGED <<verifiedTo, kept, cursor, rebuilding, committed, nextRequest,
                   excluded, outcome>>

(* Nothing, or blocks of another chain: a helper is asked no more.  Blocks
   that do not match our headers cost the session's peer a ban. *)
RetryWhole(k) == Append(retry, Span(k, inFlight[k].count))

AnswerUseless(k) ==
    /\ Answered(k) /\ inFlight[k].peer # SessionPeer
    /\ retry' = RetryWhole(k)
    /\ excluded' = excluded \cup {inFlight[k].peer}
    /\ MaybeApply(buffer, buffered)
    /\ loop' = "serve"
    /\ UNCHANGED <<verifiedTo, kept, cursor, rebuilding, committed, nextRequest,
                   outcome>>

AnswerUnmatched(k) ==
    /\ Answered(k) /\ inFlight[k].peer = SessionPeer /\ ~Expected(k)
    /\ outcome' = "banned"
    /\ UNCHANGED <<verifiedTo, kept, cursor, rebuilding, applying, committed,
                   buffer, buffered, retry, nextRequest, excluded, loop>>

\* A request expires (check_sync_timeouts).
Expire(k) ==
    /\ Failures /\ Answered(k)
    /\ retry' = RetryWhole(k)
    /\ excluded' = excluded \cup ({inFlight[k].peer} \ {SessionPeer})
    /\ loop' = "serve"
    /\ UNCHANGED <<verifiedTo, kept, cursor, rebuilding, applying, committed,
                   buffer, buffered, nextRequest, outcome>>

\* A helper leaves or fails a request (peer_unavailable).
Leave(p) ==
    /\ Failures /\ Idle
    /\ LET lost == {k \in DOMAIN inFlight : inFlight[k].peer = p}
       IN  /\ p \notin excluded \/ lost # {}
           /\ inFlight' = Without(inFlight, lost)
           /\ \E order \in SetToSeqs(lost) :
                 retry' = retry \o [i \in DOMAIN order |->
                                      Span(order[i], inFlight[order[i]].count)]
    /\ excluded' = excluded \cup {p}
    /\ loop' = "serve"
    /\ UNCHANGED <<verifiedTo, kept, cursor, rebuilding, applying, committed,
                   buffer, buffered, nextRequest, outcome>>

(* Its peer sent nothing for a while and we were not at work (timed_out).  A
   peer that answers in time is quiet only when nothing is asked of it. *)
Quiet == Failures \/ (DOMAIN inFlight = {} /\ verifiedTo = End)

TimeOut ==
    /\ Idle /\ applying = NoChunk /\ ~rebuilding
    /\ Quiet /\ ~(MayAsk /\ NextSpan # {})
    /\ outcome' = "paused"
    /\ UNCHANGED <<verifiedTo, kept, cursor, rebuilding, applying, committed,
                   buffer, buffered, inFlight, retry, nextRequest, excluded, loop>>

\* The session's peer leaves or fails us, or storing fails (abort_sync).
Abort ==
    /\ Failures /\ Idle
    /\ outcome' = "paused"
    /\ UNCHANGED <<verifiedTo, kept, cursor, rebuilding, applying, committed,
                   buffer, buffered, inFlight, retry, nextRequest, excluded, loop>>

------------------------------------------------------------------------------
(* on_batches_applied: the applied blocks are stored, or staged while the
   chain they make is the lighter one; storing drops the headers below. *)
CommitsTo(at) == committed \/ at >= OutweighsAt
HeadersDropped(at) == IF CommitsTo(at) THEN at ELSE kept

\* Everything a peer served is asked for again, and what the cursor waits for.
Theirs == {k \in DOMAIN buffer : buffer[k].source = applying.source}

Gap(at, rest) ==
    LET upTo == Min({verifiedTo, at + ChunkLimit} \cup DOMAIN rest)
    IN  IF upTo > at THEN <<Span(at, upTo - at)>> ELSE <<>>

Applied ==
    /\ Idle /\ applying # NoChunk /\ applying.stop = applying.to
    /\ cursor' = applying.to
    /\ committed' = CommitsTo(applying.to)
    /\ kept' = HeadersDropped(applying.to)
    /\ TryApply(buffer, buffered, applying.to)
    /\ loop' = "finish"
    /\ UNCHANGED <<verifiedTo, rebuilding, inFlight, retry, nextRequest,
                   excluded, outcome>>

\* A block was invalid, and a helper's: the helper is banned.
AppliedInPart ==
    /\ Idle /\ applying # NoChunk /\ applying.stop < applying.to
    /\ cursor' = applying.stop
    /\ committed' = CommitsTo(applying.stop)
    /\ kept' = HeadersDropped(applying.stop)
    /\ excluded' = excluded \cup {applying.source}
    /\ LET rest == Without(buffer, Theirs)
       IN  /\ \E again \in SetToSeqs(Theirs) :
                 /\ \A i, j \in DOMAIN again : i < j => again[i] < again[j]
                 /\ retry' = Gap(applying.stop, rest) \o retry
                              \o [i \in DOMAIN again |->
                                    Span(again[i], buffer[again[i]].count)]
           /\ TryApply(rest, Unbuffered(buffer, buffered, Theirs), applying.stop)
    /\ loop' = "finish"
    /\ UNCHANGED <<verifiedTo, rebuilding, inFlight, nextRequest, outcome>>

Over == outcome # "on" /\ UNCHANGED vars

Next ==
    \/ Ask \/ EndLoop \/ Tick
    \/ MoreHeaders \/ ForkState \/ Applied \/ AppliedInPart
    \/ \E k \in DOMAIN inFlight :
          AnswerGood(k) \/ AnswerUseless(k) \/ AnswerUnmatched(k) \/ Expire(k)
    \/ \E p \in Helpers : Leave(p)
    \/ TimeOut \/ Abort \/ Over

Spec == Init /\ [][Next]_vars

------------------------------------------------------------------------------
Spans == [start : Nat, count : Nat \ {0}]

TypeOK ==
    /\ verifiedTo \in VerifiedAtStart..End /\ kept \in 0..End
    /\ cursor \in 0..verifiedTo /\ nextRequest \in 0..verifiedTo
    /\ rebuilding \in BOOLEAN /\ committed \in BOOLEAN
    /\ applying \in [to : Nat, stop : Nat, source : Peers] \cup {NoChunk}
    /\ DOMAIN buffer \subseteq 0..End /\ DOMAIN inFlight \subseteq 0..End
    /\ \A k \in DOMAIN buffer :
          buffer[k] \in [source : Peers, count : Nat \ {0}, bad : Nat]
    /\ \A k \in DOMAIN inFlight : inFlight[k] \in [peer : Peers, count : Nat \ {0}]
    /\ buffered \in Int
    /\ retry \in Seq(Spans) /\ excluded \subseteq Peers
    /\ loop \in {"off", "serve", "finish"}
    /\ outcome \in {"on", "done", "lighter", "banned", "paused"}

\* Every block asked for and not applied yet is being applied, buffered, on its
\* way or to be asked for again: nothing else would ever ask for it, and the
\* session would wait for it until it times out.
InSpan(h, start, count) == h \in start..(start + count - 1)

AccountedFor(h) ==
    \/ applying # NoChunk /\ h < applying.to
    \/ \E k \in DOMAIN buffer : InSpan(h, k, buffer[k].count)
    \/ \E k \in DOMAIN inFlight : InSpan(h, k, inFlight[k].count)
    \/ \E i \in DOMAIN retry : InSpan(h, retry[i].start, retry[i].count)

NothingLost == outcome = "on" => \A h \in cursor..(nextRequest - 1) : AccountedFor(h)

\* buffered_bytes is what is buffered, while chunks arrive, are applied, or are
\* dropped with the helper that served them (on_batches, on_batches_applied): too
\* high, it would stop requests for good.
BufferCounted == buffered = Bytes(buffer, DOMAIN buffer)

\* The blocks in memory exceed their bound by no more than was on the wire when
\* it was reached, whatever order answers come in (schedule_batch_requests).
BufferBounded == buffered < BufferLimit + InFlightLimit * ChunkLimit

\* The byte counter, kept by hand on five paths, neither drifts nor runs away.
BufferKept == BufferCounted /\ BufferBounded

\* A session's peer that serves its chain's blocks is not banned for it.
HonestNotBanned == outcome # "banned"

\* The session ends with the peer's chain adopted.
Finishes == <>(outcome = "done")

\* Tasks report, headers come, requests are answered, and a handler runs on.
Fairness ==
    /\ WF_vars(Ask \/ EndLoop) /\ SF_vars(Tick)
    /\ SF_vars(MoreHeaders) /\ SF_vars(ForkState)
    /\ SF_vars(Applied \/ AppliedInPart)
    /\ \A k \in 0..End : SF_vars(k \in DOMAIN inFlight
                                 /\ (AnswerGood(k) \/ AnswerUseless(k)
                                     \/ AnswerUnmatched(k) \/ Expire(k)))

FairSpec == Spec /\ Fairness
=============================================================================
