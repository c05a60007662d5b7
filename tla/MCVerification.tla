----------------------------- MODULE MCVerification -----------------------------
(* Instances of Verification for TLC.                                      *)
EXTENDS ReplacedIdentifiers, FiniteSets, TLC

CONSTANTS MaxNames  \* bound: requests, organizations and withdrawals of one behavior

Symmetry ==
  Permutations(Clients) \cup Permutations(Commands) \cup Permutations(Organizations)

Requested == {c \in Commands : command[c].state # "absent" \/ \E t \in Clients : client[t].about = c}

Provisioning ==
  {o \in Organizations : membership[o].number > 0 \/ \E t \in Clients : client[t].about = o}

(* What was withdrawn: renewals, and identifiers that are current no more. *)
Withdrawn ==
  {w \in Workflows : renewal[w] # OpenRenewal}
    \cup {n \in 1..MaxIdentifiers : n + (IF identifier.current THEN 1 ELSE 0) <= identifier.number}

(* With MaxNames = 5, two requests, one organization and one renewal that  *)
(* is closed or revoked, or one identifier that is replaced or revoked; or *)
(* one request and two of these; or two organizations, of which one may be *)
(* refused, and one of these.                                              *)
MCNext ==
  /\ HistoryNext
  /\ Cardinality(Requested') + 2 * Cardinality(Provisioning') + 2 * Cardinality(aborted')
       + Cardinality(Withdrawn')
       <= MaxNames

MCSpec == HistoryInit /\ [][MCNext]_historyVars
===============================================================================
