------------------------- MODULE ReplacedIdentifiers -------------------------
(***************************************************************************)
(* What a code still proves when the identifier it was sent to is replaced *)
(* or revoked: Verification with two history variables, which record what  *)
(* a transaction could not have read and which codes therefore survived    *)
(* their identifier.  They observe the steps of Verification and prevent   *)
(* none.                                                                   *)
(***************************************************************************)
EXTENDS Verification

VARIABLES
  unread,      \* [Client -> the Challenges started while it is about to replace]
  overlooked   \* the Challenges whose code outlived its identifier

historyVars == <<vars, unread, overlooked>>

Started == {c \in Commands : challenge[c].state = "absent" /\ challenge'[c].state # "absent"}

(* A transaction that may end the identifier.                              *)
Replaces(t) ==
  \/ client[t].kind = "provision"
  \/ client[t].kind = "revoke" /\ client[t].about = "identifier"

(* A code that has been sent and can still arrive, or has.                 *)
Sent(c) == carrier[c].code \in {"pending", "delivered"}

(* The codes that a transaction which ends the identifier has to leave     *)
(* alone: those of Challenges that were started after it read which are    *)
(* pending, and those about other renewals than the one it names.          *)
Overlooks(t) ==
  {c \in Commands :
     Pending(c) /\ Sent(c) /\ (c \in unread[t] \/ challenge[c].workflow # client[t].workflow)}

Ended == {t \in Clients : Replaces(t) /\ ~Replaces(t)'}

HistoryInit == Init /\ unread = [t \in Clients |-> {}] /\ overlooked = {}

Observed ==
  /\ unread' = [t \in Clients |->
       IF Replaces(t) /\ Replaces(t)' THEN unread[t] \cup Started ELSE {}]
  /\ overlooked' = overlooked \cup
       (IF identifier' = identifier THEN {} ELSE UNION {Overlooks(t) : t \in Ended})

HistoryNext == Next /\ Observed

HistorySpec == HistoryInit /\ [][HistoryNext]_historyVars

-----------------------------------------------------------------------------
IsCurrent(c) == identifier.current /\ challenge[c].identifier = identifier.number

(* What is left of "prove current control of an on-file identifier"        *)
(* (CONTEXT.md:148) when transactions overlap and the Party has several    *)
(* renewals.  A code that is accepted was sent to the identifier that is   *)
(* current, unless it was out already when that was replaced, by a         *)
(* transaction that names another renewal or had read the pending          *)
(* Challenges before this one was started.  And such a code answers its    *)
(* own request only: a Command that is authorized without a code is so     *)
(* under the Session of one that was not overlooked.                       *)
OnlyOverlookedCodesAreStale == [][
  \A c \in Commands :
    /\ challenge'[c].state = "accepted" /\ challenge[c].state # "accepted" =>
         IsCurrent(c) \/ c \in overlooked
    /\ command'[c].state = "authorized" /\ command[c].state # "authorized"
         /\ challenge'[c].state # "accepted" =>
         \E s \in Commands \ overlooked : session[s] = "live"]_historyVars
=============================================================================
