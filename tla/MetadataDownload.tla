--------------------------- MODULE MetadataDownload ---------------------------
(***************************************************************************)
(* One session of PeerClient (includes/peer.py): fetch_metadata, _fetch    *)
(* and the BEP-9 exchange of _download_metadata, against a peer that sends *)
(* what it likes.                                                          *)
(*                                                                         *)
(* A step is what the session does between two awaits.  Frames that change *)
(* nothing (keep-alives, other messages, other extensions, a repeated      *)
(* handshake that keeps ut_metadata, a request that is answered with a     *)
(* reject) are stuttering steps.  The contents of a piece is right or      *)
(* wrong: SHA-1 tells the two apart.                                       *)
(***************************************************************************)
EXTENDS Naturals, FiniteSets

CONSTANTS
    N,            \* piece_count: blocks of the announced metadata_size
    MaxPipeline,  \* METADATA_REQUEST_PIPELINE
    Reqqs,        \* values of reqq in the peer's handshake; 0 stands for none
    Environments  \* what may go wrong in a session: a set of subsets of Faulty

\* The peer breaks the protocol; it is slow; the connection breaks; the worker
\* is cancelled; the peer stops reading.
Faulty == {"liar", "timeout", "disconnect", "cancel", "stall"}

ASSUME DownloadAssumption ==
    /\ N \in Nat \ {0} /\ MaxPipeline \in Nat \ {0}
    /\ Reqqs \subseteq Nat
    /\ Environments \subseteq SUBSET Faulty

VARIABLES
    stage,        \* stage of _fetch, "closing" in wait_closed(), or "ended"
    result,       \* how the session ends
    reqq,         \* ext.reqq
    pieces,       \* pieces: contents by number
    outstanding,  \* outstanding
    next_piece,   \* next_piece
    cancelled,    \* the worker's task was cancelled
    expired,      \* the deadline PEER_SESSION_TIMEOUT has fired
    unsent,       \* the transport holds bytes the peer does not take
    env           \* what may go wrong in this session; it never changes

transfer == <<pieces, outstanding, next_piece>>
timers   == <<cancelled, expired>>
vars     == <<stage, result, reqq, transfer, timers, unsent, env>>

Pieces   == 0..(N - 1)
Contents == {"right", "wrong"}
Talking  == {"bt_handshake", "extension_handshake", "metadata"}
Open     == {"connect"} \cup Talking

TypeOK ==
    /\ stage \in Open \cup {"closing", "ended"}
    /\ result \in {"none", "metadata", "PeerError", "CancelledError", "TypeError"}
    /\ reqq \in Reqqs \cup {0}
    /\ DOMAIN pieces \subseteq Pieces
    /\ \A p \in DOMAIN pieces : pieces[p] \in Contents
    /\ outstanding \subseteq Pieces
    /\ next_piece \in 0..N
    /\ cancelled \in BOOLEAN /\ expired \in BOOLEAN /\ unsent \in BOOLEAN
    /\ env \in Environments
    /\ (stage \in Open) = (result = "none")

Init ==
    /\ stage = "connect" /\ result = "none" /\ reqq = 0
    /\ pieces = <<>> /\ outstanding = {} /\ next_piece = 0
    /\ cancelled = FALSE /\ expired = FALSE /\ unsent = FALSE
    /\ env \in Environments

-----------------------------------------------------------------------------
\* An exception or a return leaves the try block: the finally clause closes the
\* writer if there is one, and waits.
Leave(r) ==
    /\ result' = r
    /\ stage' = IF stage = "connect" THEN "ended" ELSE "closing"
    /\ UNCHANGED <<reqq, transfer, unsent, env>>

Fail == Leave("PeerError") /\ UNCHANGED timers

\* min(config.METADATA_REQUEST_PIPELINE, ext.reqq), when the peer names one.
Limit(r) == IF r > 0 /\ r < MaxPipeline THEN r ELSE MaxPipeline

\* fill_pipeline, when `waiting' is outstanding and q pieces fit the pipeline.
\* A piece is asked for once, in ascending order.
Fill(waiting, q) ==
    LET room == q - Cardinality(waiting)
        end  == IF next_piece + room < N THEN next_piece + room ELSE N
    IN  /\ outstanding' = waiting \cup (next_piece..(end - 1))
        /\ next_piece' = end

-----------------------------------------------------------------------------
Connect ==
    /\ stage = "connect"
    /\ stage' = "bt_handshake"
    /\ UNCHANGED <<result, reqq, transfer, timers, unsent, env>>

\* The right info hash, and the bit of BEP-10.
Handshake ==
    /\ stage = "bt_handshake"
    /\ stage' = "extension_handshake"
    /\ UNCHANGED <<result, reqq, transfer, timers, unsent, env>>

\* The handshake names ut_metadata and the size; the first requests follow.
ExtensionHandshake ==
    /\ stage = "extension_handshake"
    /\ stage' = "metadata"
    /\ reqq' \in Reqqs
    /\ Fill(outstanding, Limit(reqq'))
    /\ UNCHANGED <<result, pieces, timers, unsent, env>>

\* What an honest peer does not send: a handshake without the extension, a
\* malformed or unsolicited message, ut_metadata switched off.
Invalid ==
    /\ "liar" \in env
    /\ stage \in Talking
    /\ Fail

\* A metadata header whose msg_type is a list or a dictionary: the membership
\* test raises a TypeError, which nothing turns into a PeerError.
OddHeader ==
    /\ "liar" \in env
    /\ stage = "metadata"
    /\ Leave("TypeError") /\ UNCHANGED timers

-----------------------------------------------------------------------------
\* A piece that was asked for: it is kept and the pipeline is filled up.  With
\* the last one the hash decides.
Complete(p) == DOMAIN pieces \cup {p} = Pieces

Verdict(p, c) ==
    IF c = "right" /\ \A q \in DOMAIN pieces : pieces[q] = "right"
    THEN "metadata" ELSE "PeerError"

Store(p, c) ==
    /\ pieces' = [q \in DOMAIN pieces \cup {p} |-> IF q = p THEN c ELSE pieces[q]]
    /\ Fill(outstanding \ {p}, Limit(reqq))
    /\ IF Complete(p)
         THEN result' = Verdict(p, c) /\ stage' = "closing"
         ELSE UNCHANGED <<result, stage>>
    /\ UNCHANGED <<reqq, timers, unsent, env>>

\* Mutated form: a piece that comes again fails the session.
Duplicate_Fails(p, c) == Fail

\* A piece that is there: the same again, or a conflict.
Duplicate(p, c) == IF pieces[p] = c THEN UNCHANGED vars ELSE Fail

\* A data message.  An honest peer sends the contents of what it was asked for,
\* in any order and perhaps again.
Data(p, c) ==
    /\ stage = "metadata"
    /\ "liar" \in env \/ (p < next_piece /\ c = "right")
    /\ \/ p \in DOMAIN pieces /\ Duplicate(p, c)
       \/ p \in outstanding /\ p \notin DOMAIN pieces /\ Store(p, c)
       \/ p \notin outstanding \cup DOMAIN pieces /\ Fail

\* A reject matters while its piece is outstanding.
Reject(p) ==
    /\ "liar" \in env
    /\ stage = "metadata"
    /\ IF p \in outstanding THEN Fail ELSE UNCHANGED vars

-----------------------------------------------------------------------------
\* PEER_CONNECT_TIMEOUT, PEER_HANDSHAKE_TIMEOUT, METADATA_TIMEOUT.
StageTimeout ==
    /\ "timeout" \in env
    /\ stage \in Open
    /\ Fail

Disconnect ==
    /\ "disconnect" \in env
    /\ stage \in Open
    /\ Fail

\* Mutated form: the verdict of a deadline replaces a cancellation.
Expire_Swallows ==
    /\ "timeout" \in env
    /\ ~expired /\ stage # "ended"
    /\ expired' = TRUE
    /\ IF stage = "closing"
         THEN /\ stage' = "ended" /\ result' = "PeerError"
              /\ UNCHANGED <<reqq, transfer, unsent, env>>
         ELSE Leave("PeerError")
    /\ UNCHANGED cancelled

\* asyncio.timeout(PEER_SESSION_TIMEOUT) cancels what the session awaits, once:
\* wait_closed() too if it is there already.  It turns its own cancellation into
\* the PeerError, and lets that of the worker pass.
Expire ==
    /\ "timeout" \in env
    /\ ~expired /\ stage # "ended"
    /\ expired' = TRUE
    /\ IF stage = "closing"
         THEN /\ stage' = "ended"
              /\ result' = IF cancelled THEN "CancelledError" ELSE "PeerError"
              /\ UNCHANGED <<reqq, transfer, unsent, env>>
         ELSE Leave("PeerError")
    /\ UNCHANGED cancelled

\* The shutdown cancels the worker.
Cancel ==
    /\ "cancel" \in env
    /\ ~cancelled /\ stage # "ended"
    /\ cancelled' = TRUE
    /\ IF stage = "closing"
         THEN /\ stage' = "ended" /\ result' = "CancelledError"
              /\ UNCHANGED <<reqq, transfer, unsent, env>>
         ELSE Leave("CancelledError")
    /\ UNCHANGED expired

\* The peer stops reading, or reads again.
Stall ==
    /\ "stall" \in env
    /\ stage \in Talking
    /\ unsent' = TRUE
    /\ UNCHANGED <<stage, result, reqq, transfer, timers, env>>

Drained ==
    /\ unsent
    /\ unsent' = FALSE
    /\ UNCHANGED <<stage, result, reqq, transfer, timers, env>>

\* Mutated form: a session that fails is not closed.
Closed_OnSuccess ==
    /\ stage = "closing" /\ ~unsent /\ result = "metadata"
    /\ stage' = "ended"
    /\ UNCHANGED <<result, reqq, transfer, timers, unsent, env>>

\* wait_closed() returns when the transport has sent what it holds.
Closed ==
    /\ stage = "closing" /\ ~unsent
    /\ stage' = "ended"
    /\ UNCHANGED <<result, reqq, transfer, timers, unsent, env>>

-----------------------------------------------------------------------------
Peer ==
    \/ Connect \/ Handshake \/ ExtensionHandshake \/ Invalid \/ OddHeader
    \/ \E p \in Pieces : Reject(p) \/ \E c \in Contents : Data(p, c)

Next == Peer \/ StageTimeout \/ Disconnect \/ Expire \/ Cancel \/ Stall \/ Drained \/ Closed

Spec == Init /\ [][Next]_vars

\* An honest peer on a sound network accepts the connection and answers what it
\* is asked.
Honest == env = {}
Answer == \E p \in outstanding : Data(p, "right")

\* The event loop runs the deadline and the callback of a closed transport; nobody
\* but an honest peer has to do anything.
Fairness ==
    /\ WF_vars(Expire) /\ WF_vars(Closed)
    /\ WF_vars(Honest /\ Connect) /\ WF_vars(Honest /\ Handshake)
    /\ WF_vars(Honest /\ ExtensionHandshake) /\ WF_vars(Honest /\ Answer)

FairSpec == Spec /\ Fairness

-----------------------------------------------------------------------------
(* Safety *)

\* Every piece asked for is either outstanding or there, never both: nothing is
\* forgotten and nothing is asked for twice.
Partition ==
    /\ outstanding \cap DOMAIN pieces = {}
    /\ outstanding \cup DOMAIN pieces = 0..(next_piece - 1)

\* At most METADATA_REQUEST_PIPELINE requests, and at most what the peer's reqq
\* allows, are outstanding, through every refill.
PipelineBound ==
    /\ Cardinality(outstanding) <= MaxPipeline
    /\ reqq > 0 => Cardinality(outstanding) <= reqq

\* The session reads on only if an answer can come, and it does not leave room
\* in the pipeline unused: fill_pipeline is never missed.
KeepsAsking ==
    stage = "metadata" =>
        /\ outstanding # {}
        /\ next_piece = N \/ Cardinality(outstanding) = Limit(reqq)

\* fetch_metadata returns metadata only if every piece has come and the whole
\* matches the hash, whatever duplicates and conflicts came in between.
VerifiedOnly ==
    result = "metadata" =>
        DOMAIN pieces = Pieces /\ \A p \in Pieces : pieces[p] = "right"

\* The deadline does not swallow the cancellation of the worker: a cancelled
\* session ends in CancelledError, so that the worker stops too.
CancelNotSwallowed == stage = "ended" /\ cancelled => result = "CancelledError"

-----------------------------------------------------------------------------
(* Liveness *)

\* Every session ends, whatever the peer sends or leaves out, as long as it
\* reads what it is sent (PEER_SESSION_TIMEOUT); a cancelled one ends even when
\* it does not, so that the shutdown is not held up.
SessionEnds == cancelled \/ "stall" \notin env ~> stage = "ended"

\* An honest peer, in whatever order it answers, is enough to get the metadata:
\* no order of answers makes the session wait for a piece it has not asked for.
HonestSucceeds == Honest ~> stage = "ended" /\ result = "metadata"
=============================================================================
