----------------------------- MODULE HeaderSync -----------------------------
(***************************************************************************)
(* A sync session up to its peer's headers outweighing our chain (node.rs, *)
(* "Sync: sessions" and "Sync: headers"; sync.rs): whose claim is followed,*)
(* which headers are asked for, how they are checked against a chain of    *)
(* our own that goes on moving, where the fork is, what a later session    *)
(* resumes from, and what a session's end says about its peer.             *)
(*                                                                         *)
(* The block phase is module BlockSync; here its blocks arrive at once.    *)
(***************************************************************************)
EXTENDS BlockTree, FiniteSetsExt

CONSTANTS
    ChainOf,             \* [Blocks -> sequences]: each block's chain from Genesis
    Servers, Liars,      \* liars claim what they like and answer if they like
    Prompt,              \* peers whose answers come in time
    Outbound,            \* peers this node dialled
    FirstTip, PeerTips,  \* our tip and [Servers -> Blocks], at first
    Forged,              \* blocks whose header does not verify
    Unsound,             \* blocks whose header does and whose body does not
    PerRequest,          \* HEADERS_PER_REQUEST
    QueueLimit,          \* MAX_QUEUED_HEADER_CHUNKS
    InitialStep,         \* INITIAL_STEP_BACK
    StepLimit,           \* MAX_REORG_DEPTH * 8
    ReorgLimit,          \* MAX_REORG_DEPTH
    StrikesToBan,        \* SYNC_STRIKES_TO_BAN
    MaxDisturbed,        \* bound: moves of our chain outside sessions and of
                         \* peers' chains, disconnections, restarts
    NoSession, NoBlock

\* A header that verifies adds to its chain's weight ("never zero, so a longer chain
\* is always a heavier one"); a chain is that of the block below and the block.
ASSUME HeaderSyncAssumption ==
    /\ IsFiniteSet(Blocks) /\ FirstTip \in Blocks /\ PeerTips \in [Servers -> Blocks]
    /\ ChainOf \in [Blocks -> Seq(Blocks)] /\ ChainOf[Genesis] = <<Genesis>>
    /\ \A b \in Blocks \ {Genesis} : ChainOf[b] = Append(ChainOf[Parent[b]], b)
    /\ \A b \in Blocks \ (Forged \cup {Genesis}) : Weight[b] > Weight[Parent[b]]
    /\ PerRequest \in Nat \ {0} /\ QueueLimit \in Nat \ {0}
    /\ InitialStep \in Nat /\ StepLimit \in Nat /\ ReorgLimit \in Nat
    /\ Genesis \notin Forged \cup Unsound /\ NoBlock \notin Blocks

VARIABLES
    ourTip, peerTip,     \* the chains, by their last block
    tips,                \* Node::peer_tips: [height, weight] claimed
    session,             \* Node::sync
    stored,              \* the SYNC_HEADERS table
    strikes, barred,     \* SyncRecord
    banned,
    excused,             \* ghost: peers that reorganised, whose session saw our
                         \* chain move, or resumed from headers not theirs
    budget               \* what is left of the bound

headerVars == <<ourTip, peerTip, tips, session, stored, strikes, barred, banned, excused, budget>>

At(b, h) == ChainOf[b][h + 1]
LenOf(b) == Height[b] + 1
Least(a, b) == IF a <= b THEN a ELSE b
Most(a, b) == IF a >= b THEN a ELSE b
\* The blocks of b's chain from a height on, and those below it.
From(b, h) == {ChainOf[b][i] : i \in h + 1 .. LenOf(b)}
Below(b, h) == {ChainOf[b][i] : i \in 1 .. Least(h, LenOf(b))}

\* load_headers: from a height on, as many as are asked for.
ServedFrom(b, start) == SubSeq(ChainOf[b], start + 1, Least(start + PerRequest, LenOf(b)))

Claim(b) == [height |-> LenOf(b), weight |-> Weight[b]]
Inflated == [height |-> Max({LenOf(b) : b \in Blocks}), weight |-> 1 + Max({Weight[b] : b \in Blocks})]
NoClaim == [height |-> 0, weight |-> 0]
Claims(p) == {Claim(peerTip[p])} \cup (IF p \in Liars THEN {Inflated} ELSE {})
Answers(p, start) ==
    IF p \in Liars THEN {ServedFrom(b, h) : b \in Blocks, h \in {start, start + 1}}
    ELSE {ServedFrom(peerTip[p], start)}
------------------------------------------------------------------------------
\* resume_point: verified headers on disk that extend our tip.
ResumesAnywhere(own, headers) == headers
Resumable(own, headers) ==
    {b \in headers : /\ Height[b] > Height[own] /\ At(b, Height[own]) = own
                     /\ From(b, LenOf(own)) \subseteq headers}
ResumePoint(own, headers) ==
    CHOOSE b \in Resumable(own, headers) :
        \A c \in Resumable(own, headers) : Height[c] <= Height[b]

NewSession(p, claim, step, start) ==
    [peer |-> p, claimed |-> claim, step |-> step, fork |-> -1, last |-> NoBlock,
     queue |-> <<>>, verifying |-> <<>>, inFlight |-> FALSE, deferred |-> FALSE,
     done |-> FALSE, overlap |-> FALSE, backed |-> FALSE, blocks |-> FALSE,
     applied |-> 0, start |-> start, next |-> start, to |-> start, weight |-> 0]
Resumed(own, p, claim, step, last) ==
    [NewSession(p, claim, step, LenOf(own)) EXCEPT
        !.fork = LenOf(own), !.last = last, !.overlap = TRUE,
        !.next = Height[last], !.to = LenOf(last), !.weight = Weight[last]]
FreshFromTip(own, p, claim, step) ==
    NewSession(p, claim, step, Most(LenOf(own) - step, 0))
FreshSession(own, p, claim, step) ==
    NewSession(p, claim, step, Most(Least(LenOf(own), claim.height) - step, 0))

\* request_headers, put off while chunks wait for verification.
Requested(s) ==
    IF s.inFlight \/ s.done THEN s
    ELSE IF Len(s.queue) >= QueueLimit THEN [s EXCEPT !.deferred = TRUE]
    ELSE [s EXCEPT !.inFlight = TRUE, !.deferred = FALSE]

\* verify_next_header_chunk: a task takes the next chunk, and the fetch that
\* waited for room goes out.
VerifyNextOnly(s) ==
    IF s.verifying # <<>> \/ s.queue = <<>> THEN s
    ELSE [s EXCEPT !.verifying = Head(s.queue), !.queue = Tail(s.queue)]
VerifyNext(s) ==
    IF s.verifying # <<>> \/ s.queue = <<>> THEN s
    ELSE LET taken == [s EXCEPT !.verifying = Head(s.queue), !.queue = Tail(s.queue)]
         IN  IF s.deferred THEN Requested(taken) ELSE taken

\* maybe_start_blocks, note_backing.
BlocksDue(own, s) ==
    ~s.blocks /\ s.fork >= 0 /\ s.weight > Weight[own] /\ s.to > s.fork
MaybeBlocks(own, s) ==
    IF BlocksDue(own, s) THEN [s EXCEPT !.blocks = TRUE, !.applied = s.fork] ELSE s
Backing(s) == [s EXCEPT !.backed = @ \/ s.weight >= s.claimed.weight]

\* start_sync: from the headers on disk if they can be resumed from, or afresh.
HeadersKept(own, mayResume, headers) ==
    IF mayResume /\ Resumable(own, headers) # {} THEN headers ELSE {}
Start(own, p, claim, step, mayResume, headers) ==
    /\ stored' = HeadersKept(own, mayResume, headers)
    /\ session' = IF ~mayResume \/ Resumable(own, headers) = {}
                  THEN Requested(FreshSession(own, p, claim, step))
                  ELSE MaybeBlocks(own, Requested(Resumed(own, p, claim, step,
                                                          ResumePoint(own, headers))))

\* sync_from_best_peer: peers we dialled first, then the heaviest claim.
Prefer(p, q, known) ==
    IF (p \in Outbound) # (q \in Outbound) THEN p \in Outbound
    ELSE known[p].weight >= known[q].weight
Heavier(own, known, held) == {p \in Servers \ held : known[p].weight > Weight[own]}
BestPeers(own, known, held) ==
    {p \in Heavier(own, known, held) :
        \A q \in Heavier(own, known, held) : Prefer(p, q, known)}
StartBest(own, known, held, headers) ==
    \/ /\ BestPeers(own, known, held) = {}
       /\ session' = NoSession /\ stored' = headers
    \/ \E p \in BestPeers(own, known, held) : Start(own, p, known[p], InitialStep, TRUE, headers)

(* abort_sync: SyncRecord::record, a ban at the last strike, and a session
   with the next best peer. *)
Bans(p, blame) == blame = "ban" \/ (blame = "strike" /\ strikes[p] + 1 >= StrikesToBan)
Struck(p, blame) ==
    IF blame # "strike" THEN strikes
    ELSE [strikes EXCEPT ![p] = IF Bans(p, blame) THEN 0 ELSE @ + 1]
EndSession(own, blame, headers) ==
    LET p == session.peer
    IN  /\ strikes' = Struck(p, blame)
        /\ banned' = IF Bans(p, blame) THEN banned \cup {p} ELSE banned
        /\ barred' = IF blame \in {"pause", "strike"} /\ ~Bans(p, blame)
                     THEN barred \cup {p} ELSE barred
        /\ tips' = IF Bans(p, blame) THEN [tips EXCEPT ![p] = NoClaim] ELSE tips
        /\ StartBest(own, tips', barred', IF blame = "ban" THEN {} ELSE headers)

\* maybe_finish_sync, once a handler has left the session at s.
Complete(s) == s.done /\ s.queue = <<>> /\ s.verifying = <<>> /\ ~s.inFlight
Shortfall(s) == IF s.weight < s.claimed.weight THEN "strike" ELSE "none"
Finish(own, s, headers) ==
    \/ /\ ~Complete(s) \/ (s.blocks /\ s.applied < s.to)
       /\ session' = s /\ stored' = headers
       /\ UNCHANGED <<strikes, barred, banned, tips>>
    \/ /\ Complete(s) /\ ~s.blocks
       /\ EndSession(own, Shortfall(s), {})
    \/ /\ Complete(s) /\ s.blocks /\ s.applied >= s.to
       /\ strikes' = [strikes EXCEPT ![s.peer] = 0] /\ barred' = barred \ {s.peer}
       /\ StartBest(own, tips, barred', headers)
       /\ UNCHANGED <<banned, tips>>
------------------------------------------------------------------------------
InSession == session # NoSession

(* Ghost: a session resumed from headers its peer's chain does not have. *)
OnChain(b, tip) == b \in Below(tip, LenOf(tip))
Misresumed == /\ session' # NoSession /\ session'.overlap
              /\ ~OnChain(session'.last, peerTip[session'.peer])
Excuse == excused' = IF Misresumed THEN excused \cup {session'.peer} ELSE excused

(* on_state_info: an outbound peer's heavier claim takes the place of an
   inbound peer's that has not been verified yet. *)
Preempts(p, claim) ==
    /\ session.peer # p /\ ~session.blocks
    /\ claim.weight > Weight[ourTip]
    /\ p \in Outbound /\ session.peer \notin Outbound /\ p \notin barred

HearState(p) ==
    /\ p \notin banned
    /\ \E claim \in Claims(p) :
       LET known == [tips EXCEPT ![p] = claim]
       IN  \/ /\ ~InSession
              /\ tips' = known
              /\ StartBest(ourTip, known, barred, stored)
              /\ UNCHANGED <<strikes, barred, banned>>
           \/ /\ InSession /\ ~Preempts(p, claim)
              /\ tips' = known
              /\ session' = IF session.peer # p THEN session
                            ELSE [session EXCEPT !.claimed.height = Most(@, claim.height)]
              /\ UNCHANGED <<stored, strikes, barred, banned>>
           \/ /\ InSession /\ Preempts(p, claim)
              /\ tips' = known /\ barred' = barred \cup {session.peer}
              /\ StartBest(ourTip, known, barred', stored)
              /\ UNCHANGED <<strikes, banned>>
    /\ Excuse /\ UNCHANGED <<ourTip, peerTip, budget>>

(* examine_headers, on what is left of a chunk after the overlap. *)
Follows(s, chunk) ==
    IF s.last # NoBlock THEN Parent[chunk[1]] = s.last
    ELSE IF s.start = 0 THEN chunk[1] = Genesis
    ELSE s.start <= LenOf(ourTip) /\ Parent[chunk[1]] = At(ourTip, s.start - 1)
QueuedUp(s, chunk, full) ==
    LET next == s.next + Len(chunk)
    IN  [s EXCEPT !.next = next, !.last = chunk[Len(chunk)],
                  !.queue = Append(@, chunk),
                  !.done = @ \/ ~(full /\ next < s.claimed.height),
                  !.weight = IF s.last # NoBlock THEN @
                             ELSE IF s.start = 0 THEN 0
                             ELSE Weight[At(ourTip, s.start - 1)]]

RestartFrom(step) ==
    /\ Start(ourTip, session.peer, session.claimed, step, FALSE, {})
    /\ UNCHANGED <<strikes, barred, banned, tips>>
Continue(s) == Finish(ourTip, VerifyNext(Requested(Backing(s))), stored)

Examine(s, chunk, full) ==
    \/ chunk = <<>> /\ s.last # NoBlock /\ Continue([s EXCEPT !.done = @ \/ ~full])
    \/ /\ chunk = <<>> /\ s.last = NoBlock
       /\ EndSession(ourTip, IF s.next < s.claimed.height THEN "strike" ELSE "pause", stored)
    \/ /\ chunk # <<>> /\ Height[chunk[1]] # s.next
       /\ EndSession(ourTip, "ban", stored)
    \/ /\ chunk # <<>> /\ Height[chunk[1]] = s.next
       /\ \/ Follows(s, chunk) /\ Continue(QueuedUp(s, chunk, full))
          \/ ~Follows(s, chunk) /\ s.last # NoBlock /\ EndSession(ourTip, "strike", stored)
          \/ /\ ~Follows(s, chunk) /\ s.last = NoBlock
             /\ IF s.step * 8 > StepLimit THEN EndSession(ourTip, "pause", stored)
                ELSE RestartFrom(s.step * 8)

(* on_headers: an answer, checked first to go on from the last stored header
   if the session was resumed. *)
Still(chunk) == chunk # <<>> /\ chunk[1] = session.last
Headers ==
    /\ InSession /\ session.inFlight
    /\ \E chunk \in Answers(session.peer, session.next) :
       LET s == [session EXCEPT !.inFlight = FALSE, !.overlap = FALSE]
           full == Len(chunk) = PerRequest
       IN  \/ ~session.overlap /\ Examine(s, chunk, full)
           \/ /\ session.overlap /\ Still(chunk)
              /\ Examine([s EXCEPT !.next = @ + 1], Tail(chunk), full)
           \/ /\ session.overlap /\ ~Still(chunk)
              /\ RestartFrom(InitialStep)
    /\ Excuse /\ UNCHANGED <<ourTip, peerTip, budget>>

(* on_headers_verified: where the chain leaves ours, and the verified headers
   from there on go to disk. *)
NewHeights(chunk) ==
    {h \in {Height[b] : b \in {chunk[i] : i \in 1..Len(chunk)}} : h >= LenOf(ourTip)}
Departures(chunk) ==
    {h \in {Height[b] : b \in {chunk[i] : i \in 1..Len(chunk)}} :
        h >= LenOf(ourTip) \/ At(ourTip, h) # chunk[h - Height[chunk[1]] + 1]}
Verified(s, chunk) ==
    LET last == chunk[Len(chunk)]
    IN  Backing([s EXCEPT !.verifying = <<>>, !.to = LenOf(last), !.weight = Weight[last]])
\* The table is keyed by height.
SavedFrom(chunk, fork) ==
    LET new == {b \in {chunk[i] : i \in 1..Len(chunk)} : Height[b] >= fork}
    IN  {b \in stored : \A c \in new : Height[b] # Height[c]} \cup new
AfterVerified(s, headers) ==
    Finish(ourTip, VerifyNext(Requested(MaybeBlocks(ourTip, s))), headers)
TooDeep(fork) == fork > LenOf(ourTip) \/ LenOf(ourTip) - fork > ReorgLimit

HeadersVerified ==
    /\ InSession /\ session.verifying # <<>>
    /\ LET chunk == session.verifying
           s == Verified(session, chunk)
           fork == Min(Departures(chunk))
       IN  \/ /\ \E i \in 1..Len(chunk) : chunk[i] \in Forged
              /\ EndSession(ourTip, "ban", stored)
           \/ /\ \A i \in 1..Len(chunk) : chunk[i] \notin Forged
              /\ \/ s.fork >= 0 /\ AfterVerified(s, SavedFrom(chunk, 0))
                 \/ /\ s.fork < 0 /\ Departures(chunk) = {}
                    /\ AfterVerified([s EXCEPT !.fork = IF s.to >= LenOf(ourTip)
                                                        THEN LenOf(ourTip) ELSE -1], stored)
                 \/ /\ s.fork < 0 /\ Departures(chunk) # {} /\ TooDeep(fork)
                    /\ EndSession(ourTip, "pause", {})
                 \/ /\ s.fork < 0 /\ Departures(chunk) # {} /\ ~TooDeep(fork)
                    /\ AfterVerified([s EXCEPT !.fork = fork], SavedFrom(chunk, fork))
    /\ Excuse /\ UNCHANGED <<ourTip, peerTip, budget>>

(* The block phase: what the verified headers name, from the fork (or from
   where the last round got to) on, is applied to our chain's state there. *)
SoundTo(b) == Below(b, LenOf(b)) \cap (Forged \cup Unsound) = {}
Named(h) == {b \in stored : Height[b] = h}
HeadersLead(b) ==
    /\ From(b, session.applied) \subseteq stored
    /\ Below(b, session.applied) = Below(ourTip, session.applied)
    /\ session.applied <= LenOf(b)
\* As far as every body is good.
SoundPart(b) == LET bad == {Height[c] : c \in From(b, 0) \cap Unsound}
                IN  IF bad = {} THEN b ELSE At(b, Min(bad) - 1)
Adopted(b) == IF Weight[b] > Weight[ourTip] THEN b ELSE ourTip
Above(headers, tip) == {b \in headers : Height[b] > Height[tip]}

\* The session's peer holds other blocks, or none, where the headers on disk
\* have theirs: it is asked even before it has shown that it has the headers.
ServesOthers ==
    session.peer \in Liars \/ \E b \in Named(session.to - 1) : ~OnChain(b, peerTip[session.peer])
Peerless(b) == \A p \in Servers : p \notin Liars => ~OnChain(b, peerTip[p])

BlocksApplied ==
    /\ InSession /\ session.blocks /\ session.applied < session.to
    /\ LET s == [session EXCEPT !.applied = session.to]
           served == {b \in Named(session.to - 1) : HeadersLead(b)}
           held == LenOf(peerTip[session.peer])
       IN  \/ /\ session.applied > LenOf(ourTip)
              /\ ourTip' = ourTip /\ EndSession(ourTip, "pause", stored)
           \/ /\ session.applied <= LenOf(ourTip) /\ served = {}
              /\ ourTip' = ourTip /\ EndSession(ourTip, "ban", stored)
           \/ /\ session.applied <= LenOf(ourTip) /\ ServesOthers
              /\ ourTip' = ourTip
              /\ EndSession(ourTip, IF held > session.applied THEN "ban" ELSE "pause", stored)
           \/ \E b \in served :
                 /\ ~ServesOthers \/ Liars # {} \/ ~Peerless(b)
                 /\ ourTip' = Adopted(SoundPart(b))
                 /\ IF SoundPart(b) = b
                    THEN Finish(ourTip', s, Above(stored, ourTip'))
                    ELSE EndSession(ourTip', "ban", stored)
    /\ Excuse /\ UNCHANGED <<peerTip, budget>>

(* Until then the node follows its own chain: a heavier block, mined or heard.
   Committing it drops the verified headers at its height and below. *)
NodeMoves(b) ==
    /\ budget > 0 /\ ~(InSession /\ session.blocks)
    /\ SoundTo(b) /\ Weight[b] > Weight[ourTip]
    /\ ourTip' = b /\ stored' = Above(stored, b)
    /\ excused' = IF InSession THEN excused \cup {session.peer} ELSE excused
    /\ budget' = budget - 1
    /\ UNCHANGED <<peerTip, tips, session, strikes, barred, banned>>

PeerGrows(p, b) ==
    /\ budget > 0 /\ p \notin Liars
    /\ SoundTo(b) /\ Weight[b] > Weight[peerTip[p]]
    /\ peerTip' = [peerTip EXCEPT ![p] = b]
    /\ excused' = IF OnChain(peerTip[p], b) THEN excused ELSE excused \cup {p}
    /\ budget' = budget - 1
    /\ UNCHANGED <<ourTip, tips, session, stored, strikes, barred, banned>>

\* check_sync_timeouts: quiet while we wait on it, not on our own work.
Waiting == session.inFlight \/ (session.blocks /\ session.applied < session.to)
Timeout ==
    /\ InSession /\ session.verifying = <<>>
    /\ session.peer \notin Prompt \/ ~Waiting
    /\ EndSession(ourTip, IF session.backed THEN "pause" ELSE "strike", stored)
    /\ Excuse /\ UNCHANGED <<ourTip, peerTip, budget>>

\* peer_unavailable: it disconnected, or the request failed.
PeerLeaves ==
    /\ InSession /\ budget > 0
    /\ EndSession(ourTip, "pause", stored)
    /\ budget' = budget - 1
    /\ Excuse /\ UNCHANGED <<ourTip, peerTip>>

\* The cooldown passes.  A ban outlasts the behaviour.
Unbar(p) ==
    /\ p \in barred /\ barred' = barred \ {p}
    /\ UNCHANGED <<ourTip, peerTip, tips, session, stored, strikes, banned, excused, budget>>

\* The headers on disk, the chain and the bans outlive the process.
Restart ==
    /\ budget > 0 /\ budget' = budget - 1
    /\ session' = NoSession /\ tips' = [p \in Servers |-> NoClaim]
    /\ strikes' = [p \in Servers |-> 0] /\ barred' = {}
    /\ UNCHANGED <<ourTip, peerTip, stored, banned, excused>>

SyncInit ==
    /\ ourTip = FirstTip /\ peerTip = PeerTips
    /\ tips = [p \in Servers |-> NoClaim]
    /\ session = NoSession /\ stored = {}
    /\ strikes = [p \in Servers |-> 0] /\ barred = {} /\ banned = {} /\ excused = {}
    /\ budget = MaxDisturbed

SyncNext ==
    \/ \E p \in Servers : HearState(p) \/ Unbar(p) \/ (\E b \in Blocks : PeerGrows(p, b))
    \/ \E b \in Blocks : NodeMoves(b)
    \/ Headers \/ HeadersVerified \/ BlocksApplied \/ Timeout \/ PeerLeaves \/ Restart

(* Fairness: our own tasks end, timers fire, cooldowns pass, connected peers
   are polled for their state, and prompt peers answer. *)
SyncFairness ==
    /\ \A p \in Servers : WF_headerVars(Unbar(p)) /\ (p \in Prompt => WF_headerVars(HearState(p)))
    /\ WF_headerVars(InSession /\ session.peer \in Prompt /\ Headers)
    /\ WF_headerVars(InSession /\ session.peer \in Prompt /\ BlocksApplied)
    /\ WF_headerVars(HeadersVerified) /\ WF_headerVars(Timeout)

SyncSpec == SyncInit /\ [][SyncNext]_headerVars /\ SyncFairness
------------------------------------------------------------------------------
Honest == Prompt \ Liars

(* A peer that answers in time with what it has, and whose chain only grew, is
   never struck or banned, however the claims and headers of others, restarts
   and resumed headers mix with its own: unless our own chain moved under its
   session, or the session resumed from headers its chain does not have. *)
BlamesFairly == \A p \in Honest \ excused : strikes[p] = 0 /\ p \notin banned

(* A peer that serves what it has is neither struck nor banned: what the
   comments on Blame promise, without the exceptions. *)
NoneBlamed == \A p \in Honest : strikes[p] = 0 /\ p \notin banned

(* While a session has headers to fetch and room for a chunk, a request is on
   the wire, and no chunk waits unverified without a task: no session sits
   idle until its timeout, which would be held against its peer. *)
FetchesAhead ==
    InSession =>
        /\ session.done \/ session.inFlight \/ Len(session.queue) >= QueueLimit
        /\ session.queue # <<>> => session.verifying # <<>>

(* The verified headers on disk are one run of the block tree without a forged
   header, whichever sessions wrote them: one of them stands at each height,
   on the one below it. *)
StoredIsOneChain ==
    /\ stored \cap Forged = {}
    /\ \A b, c \in stored : Height[b] = Height[c] => b = c
    /\ \A b, c \in stored : Height[b] = Height[c] + 1 => Parent[b] = c

(* Headers fetched from a fork on are those of a chain that leaves ours there:
   until our own chain moves, what the block phase starts from is right. *)
ForkIsReal ==
    InSession /\ session.blocks /\ session.peer \notin excused
    /\ session.applied < session.to => \E b \in Named(session.to - 1) : HeadersLead(b)

\* Whichever sessions wrote them, the headers on disk are one chain's, and it is
\* ours below where the block phase starts from (save_sync_headers, maybe_start_blocks).
SessionOnChain == StoredIsOneChain /\ ForkIsReal

(* A heavier chain held by a prompt peer we dialled is followed in the end,
   whatever liars claim meanwhile. *)
OvertakenInTheEnd ==
    \A p \in Honest \cap Outbound :
        <>[](Weight[ourTip] >= Weight[peerTip[p]] \/ p \in excused)
=============================================================================
