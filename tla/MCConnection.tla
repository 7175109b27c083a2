--------------------------- MODULE MCConnection ---------------------------
(* TLC instances of a connection's two ways of sending: at once, or at    *)
(* the rate of its limiter. A behaviour is one of either, and the other   *)
(* stays as it was made.                                                  *)
EXTENDS TcpConnection

CONSTANTS
  Ways,        \* which of the two a run is about
  Rate, Second, MaxLen, MaxPaced, MaxNow, MaxLag

VARIABLES
  inUse, now, storedPermits, nextFree, backlog, timers, posted, requested, charged, sentAt

paceVars ==
  <<now, storedPermits, nextFree, backlog, timers, posted, requested, charged, sentAt>>

Pace == INSTANCE Pacing WITH MaxBytes <- MaxPaced

ASSUME PacingAssumption == Pace!PacingConstants

ConnectionInit ==
  /\ Init
  /\ Pace!Init
  /\ inUse \in Ways \intersect {"Send", "SendB"}

UseSend ==
  /\ inUse = "Send"
  /\ Next
  /\ UNCHANGED <<inUse, paceVars>>

UseSendB ==
  /\ inUse = "SendB"
  /\ Pace!Next
  /\ UNCHANGED <<inUse, vars>>

ConnectionNext == UseSend \/ UseSendB

\* The loop and the socket are those of TcpConnection's FairSpec.
ConnectionSpec ==
  /\ ConnectionInit
  /\ [][ConnectionNext]_<<inUse, vars, paceVars>>
  /\ Fairness

\* What SendB has put into the ring and not sent is owed by its delayed tasks (see Pacing).
BacklogCovered == Pace!BacklogCovered

\* The limiter keeps its rate in the long run but for a tick's worth of each request it
\* charges for, whatever is requested and however late the loop is (see Pacing).
LongRunRate == Pace!LongRunRate
=============================================================================
