---------------------------- MODULE RoundLedger ----------------------------
(***************************************************************************)
(* What the round loop promises to whoever reads its rounds (the backend,  *)
(* its miners, the validator's own next process): per round and            *)
(* participant at most one row, which stands once it was accepted; a round *)
(* is closed only when each participant was dealt with, and a closed round *)
(* is left alone.  Only a restart of the validator, which remembers no     *)
(* closed round, opens them again, and then the rows are as they were.     *)
(*                                                                         *)
(* How passes, retries, the thread pool and lost calls produce the rows is *)
(* the matter of RoundLoop, which implements this specification.           *)
(***************************************************************************)
CONSTANTS Tracks, Rounds, Agents,
          NoRow         \* no row of the participant was accepted

VARIABLES row,          \* [Tracks -> [Rounds -> [Agents -> row or NoRow]]]
          dealt,        \* [Tracks -> [Rounds -> participants dealt with]]
          closed,       \* the rounds that are over
          blind         \* tracks whose earlier rows could not be read back

ledger == <<row, dealt, closed>>

Init ==
  /\ row = [t \in Tracks |-> [r \in Rounds |-> [a \in Agents |-> NoRow]]]
  /\ dealt = [t \in Tracks |-> [r \in Rounds |-> {}]]
  /\ closed = {} /\ blind = {}

\* Accepted rows stand, but for tracks taken up blindly.
RowsStand ==
  \A t \in Tracks \ blind, r \in Rounds, a \in Agents :
    row[t][r][a] = NoRow \/ row'[t][r][a] = row[t][r][a]

\* Nobody touches a closed round.
ClosedRest ==
  \A d \in closed : row'[d[1]][d[2]] = row[d[1]][d[2]]
                    /\ dealt'[d[1]][d[2]] = dealt[d[1]][d[2]]

\* Open rounds go on: rows come in, participants are dealt with, or taken up anew.
Work == RowsStand /\ ClosedRest /\ UNCHANGED closed

\* Rounds are closed, together with their last rows.
Close ==
  /\ RowsStand /\ ClosedRest /\ closed \subseteq closed'
  /\ \A d \in closed' \ closed : dealt'[d[1]][d[2]] = Agents

\* The validator restarts and knows of no closed round.
Reopen == closed' = {} /\ UNCHANGED <<row, dealt>>

Spec == Init /\ [][Work \/ Close \/ Reopen]_ledger
=============================================================================
