------------------------- MODULE VerificationProofs -------------------------
(***************************************************************************)
(* Verification, for every number of renewals, requests, organizations and *)
(* transactions that overlap: a Command follows its Challenge, protected   *)
(* details leave once, authority is checked where it is used, and a code   *)
(* that outlives its identifier proves nothing more (ReplacedIdentifiers). *)
(***************************************************************************)
EXTENDS ReplacedIdentifiers, TLAPS

Resolution ==
  {"workflow_closed", "identifier_revoked", "approval_required", "authority_revoked",
   "verification_expired", "verification_delivery_failed", "verification_attempts_exhausted"}

Terminal == {"expired", "delivery_failed", "attempts_exhausted", "rejected"}

Numbered == [number : Nat, current : BOOLEAN]

CommandRow ==
  [state : {"absent", "waiting", "authorized", "rejected"},
   outcome : Resolution \cup {"none", "authorized"}]

ChallengeRow ==
  [state : {"absent", "pending", "accepted"} \cup Terminal,
   workflow : Workflows \cup {"none"}, identifier : Nat, failed : Nat, expired : BOOLEAN]

CarrierRow ==
  [lifecycle : {"absent", "active", "completed", "failed"}, number : Nat,
   lease : {"none", "live", "lapsed"}, code : {"none", "pending", "delivered", "failed"}]

ClientRow ==
  [kind : {"idle", "request", "provision", "revoke"}, workflow : Workflows \cup {"none"},
   about : Commands \cup Organizations \cup Target \cup {"none"}, pending : SUBSET Commands]

TypeOK ==
  /\ identifier \in Numbered
  /\ membership \in [Organizations -> Numbered]
  /\ role \in [Workflows -> [organization : Organizations \cup {"none"}, number : Nat]]
  /\ renewal \in [Workflows -> [active : BOOLEAN, revoked : BOOLEAN, granted : BOOLEAN]]
  /\ command \in [Commands -> CommandRow]
  /\ challenge \in [Commands -> ChallengeRow]
  /\ carrier \in [Commands -> CarrierRow]
  /\ session \in [Commands -> {"none", "live", "expired"}]
  /\ disclosures \in [Commands -> Nat]
  /\ client \in [Clients -> ClientRow]
  /\ aborted \subseteq Workflows

(* What a Command, its Challenge and the Deliveries made for it say        *)
(* together.                                                               *)
Agree(k, h, delivered) ==
  /\ k.state = "waiting" <=> h.state = "pending"
  /\ k.state = "absent" => h.state = "absent"
  /\ h.state # "absent" =>
       /\ k.state = "authorized" <=> h.state = "accepted"
       /\ k.state = "rejected" => TerminalState(k.outcome) = h.state
  /\ delivered = IF k.state = "authorized" THEN 1 ELSE 0

RowsInv == \A c \in Commands : Agree(command[c], challenge[c], disclosures[c])

(* A request that has begun is about a Command of its own, which nobody    *)
(* has decided about; the other transactions are about what they name; a   *)
(* Challenge that is open is about a renewal.                              *)
ClientInv ==
  /\ \A t \in Clients : client[t].kind = "request" =>
       /\ client[t].about \in Commands
       /\ command[client[t].about].state = "absent"
       /\ \A u \in Clients : client[u].kind = "request" /\ client[u].about = client[t].about => u = t
  /\ \A t \in Clients :
       /\ client[t].kind = "provision" => client[t].about \in Organizations
       /\ client[t].kind = "revoke" => client[t].about \in Target
       /\ client[t].kind # "idle" => client[t].workflow \in Workflows
  /\ \A c \in Commands : challenge[c].state = "pending" => challenge[c].workflow \in Workflows

Inv == TypeOK /\ RowsInv /\ ClientInv

-----------------------------------------------------------------------------
(* Resolution.                                                             *)

LEMMA AuthorizeResolves ==
  ASSUME NEW w
  PROVE  Authorize(w) = "authorized" \/ Authorize(w) \in Resolution
BY DEF Authorize, Resolution

LEMMA TerminalStates ==
  ASSUME NEW resolution PROVE TerminalState(resolution) \in Terminal
BY DEF TerminalState, Terminal

(* Endings of Challenges, from whatever list they were read.               *)
Ending(ending) == \A c \in DOMAIN ending : ending[c] \in Resolution \cup {"none"}

LEMMA AllEnds ==
  ASSUME NEW set, NEW resolution \in Resolution \cup {"none"}
  PROVE  Ending(All(set, resolution))
BY DEF Ending, All

LEMMA ReconciledEnds ==
  ASSUME NEW pending PROVE Ending(Reconciled(pending))
BY DEF Ending, Reconciled, Resolution

(* The rows after a resolution are rows, they agree, and a Command that    *)
(* nobody has decided about stays so.                                      *)
LEMMA EndingAgrees ==
  ASSUME command \in [Commands -> CommandRow], challenge \in [Commands -> ChallengeRow],
         NEW ending, Ending(ending)
  PROVE  /\ CommandsResolved(ending) \in [Commands -> CommandRow]
         /\ Challenges(ending) \in [Commands -> ChallengeRow]
         /\ \A c \in Commands :
              LET k == CommandsResolved(ending)[c]
                  h == Challenges(ending)[c]
              IN  /\ Agree(command[c], challenge[c], disclosures[c]) => Agree(k, h, disclosures[c])
                  /\ k.state = "absent" <=> command[c].state = "absent"
                  /\ k.state = "authorized" <=> command[c].state = "authorized"
                  /\ h.state = "absent" <=> challenge[c].state = "absent"
                  /\ h.state = "accepted" <=> challenge[c].state = "accepted"
                  /\ h.state = "pending" => h = challenge[c]
<1> DEFINE k(c) == CommandsResolved(ending)[c]
           h(c) == Challenges(ending)[c]
<1>1. ASSUME NEW c \in Commands,
             c \in DOMAIN ending /\ ending[c] # "none"
      PROVE  /\ command[c].state = "waiting" =>
                  k(c).state = "rejected" /\ k(c).outcome = ending[c] /\ k(c) \in CommandRow
             /\ challenge[c].state = "pending" =>
                  h(c).state = TerminalState(ending[c]) /\ h(c) \in ChallengeRow
  <2>1. ending[c] \in Resolution
    BY <1>1 DEF Ending
  <2>2. command[c].state = "waiting" => k(c) = [state |-> "rejected", outcome |-> ending[c]]
    BY <1>1 DEF CommandsResolved
  <2>3. challenge[c].state = "pending" =>
          h(c) = [challenge[c] EXCEPT !.state = TerminalState(ending[c])]
    BY <1>1 DEF Challenges
  <2>4. challenge[c] \in ChallengeRow /\ TerminalState(ending[c]) \in Terminal
    BY <1>1, TerminalStates
  <2>5. /\ [challenge[c] EXCEPT !.state = TerminalState(ending[c])] \in ChallengeRow
        /\ [challenge[c] EXCEPT !.state = TerminalState(ending[c])].state = TerminalState(ending[c])
    BY <2>4 DEF ChallengeRow
  <2>6. [state |-> "rejected", outcome |-> ending[c]] \in CommandRow
    BY <2>1 DEF CommandRow
  <2>7. command[c].state = "waiting" =>
          k(c).state = "rejected" /\ k(c).outcome = ending[c] /\ k(c) \in CommandRow
    BY <2>2, <2>6
  <2>8. challenge[c].state = "pending" =>
          h(c).state = TerminalState(ending[c]) /\ h(c) \in ChallengeRow
    BY <2>3, <2>5
  <2> QED BY <2>7, <2>8
<1>2. ASSUME NEW c \in Commands
      PROVE  /\ (c \in DOMAIN ending /\ ending[c] # "none" /\ command[c].state = "waiting")
                  \/ k(c) = command[c]
             /\ (c \in DOMAIN ending /\ ending[c] # "none" /\ challenge[c].state = "pending")
                  \/ h(c) = challenge[c]
  BY DEF CommandsResolved, Challenges
<1>3. ASSUME NEW c \in Commands
      PROVE  k(c) \in CommandRow /\ h(c) \in ChallengeRow
  BY <1>1, <1>2
<1>4. ASSUME NEW c \in Commands PROVE k(c).state = "absent" <=> command[c].state = "absent"
  BY <1>1, <1>2
<1>5. ASSUME NEW c \in Commands PROVE k(c).state = "authorized" <=> command[c].state = "authorized"
  BY <1>1, <1>2
<1>6. ASSUME NEW c \in Commands
      PROVE  /\ h(c).state = "absent" <=> challenge[c].state = "absent"
             /\ h(c).state = "accepted" <=> challenge[c].state = "accepted"
             /\ h(c).state = "pending" => h(c) = challenge[c]
  BY <1>1, <1>2, TerminalStates DEF Terminal
<1>7. ASSUME NEW c \in Commands, Agree(command[c], challenge[c], disclosures[c])
      PROVE  Agree(k(c), h(c), disclosures[c])
  <2>1. CASE k(c) = command[c] /\ h(c) = challenge[c]
    BY <1>7, <2>1
  <2>2. CASE c \in DOMAIN ending /\ ending[c] # "none" /\ command[c].state = "waiting"
    <3>1. challenge[c].state = "pending"
      BY <1>7, <2>2 DEF Agree
    <3>2. /\ k(c).state = "rejected" /\ k(c).outcome = ending[c]
          /\ h(c).state = TerminalState(ending[c]) /\ h(c).state \in Terminal
      BY <1>1, <2>2, <3>1, TerminalStates
    <3> QED BY <1>7, <2>2, <3>2 DEF Agree, Terminal
  <2>3. CASE c \in DOMAIN ending /\ ending[c] # "none" /\ challenge[c].state = "pending"
    BY <1>7, <2>2, <2>3 DEF Agree
  <2> QED BY <1>2, <2>1, <2>2, <2>3
<1>8. CommandsResolved(ending) \in [Commands -> CommandRow]
  BY <1>3 DEF CommandsResolved
<1>9. Challenges(ending) \in [Commands -> ChallengeRow]
  BY <1>3 DEF Challenges
<1> QED BY <1>4, <1>5, <1>6, <1>7, <1>8, <1>9

(* Resolve alone.                                                          *)
LEMMA ResolveKeeps ==
  ASSUME TypeOK, RowsInv, NEW ending, Ending(ending), Resolve(ending), UNCHANGED disclosures
  PROVE  /\ RowsInv'
         /\ command' \in [Commands -> CommandRow]
         /\ challenge' \in [Commands -> ChallengeRow]
         /\ \A c \in Commands :
              /\ command'[c].state = "absent" <=> command[c].state = "absent"
              /\ command'[c].state = "authorized" <=> command[c].state = "authorized"
              /\ challenge'[c].state = "pending" => challenge'[c] = challenge[c]
              /\ challenge'[c].state = "accepted" <=> challenge[c].state = "accepted"
<1>1. command' = CommandsResolved(ending) /\ challenge' = Challenges(ending)
  BY DEF Resolve
<1>2. command \in [Commands -> CommandRow] /\ challenge \in [Commands -> ChallengeRow]
  BY DEF TypeOK
<1>3. /\ command' \in [Commands -> CommandRow]
      /\ challenge' \in [Commands -> ChallengeRow]
      /\ \A c \in Commands :
           /\ Agree(command[c], challenge[c], disclosures[c]) =>
                Agree(command'[c], challenge'[c], disclosures[c])
           /\ command'[c].state = "absent" <=> command[c].state = "absent"
           /\ command'[c].state = "authorized" <=> command[c].state = "authorized"
           /\ challenge'[c].state = "pending" => challenge'[c] = challenge[c]
           /\ challenge'[c].state = "accepted" <=> challenge[c].state = "accepted"
  BY <1>1, <1>2, EndingAgrees
<1>4. RowsInv'
  BY <1>3 DEF RowsInv
<1> QED BY <1>3, <1>4

(* Transactions end, and only the Commands they were about are decided.    *)
LEMMA RequestsKept ==
  ASSUME Inv, NEW done \in SUBSET Clients,
         client' = [u \in Clients |-> IF u \in done THEN Idle ELSE client[u]],
         \A c \in Commands :
           command[c].state = "absent"
             /\ ~(\E u \in done : client[u].kind = "request" /\ client[u].about = c)
           => command'[c].state = "absent",
         \A c \in Commands :
           challenge'[c].state = "pending" => challenge'[c].workflow \in Workflows
  PROVE  ClientInv'
<1>1. ASSUME NEW t \in Clients, client'[t].kind # "idle"
      PROVE  t \notin done /\ client'[t] = client[t]
  BY <1>1 DEF Idle
<1>2. ASSUME NEW t \in Clients, client'[t].kind = "request"
      PROVE  /\ client'[t].about \in Commands
             /\ command'[client'[t].about].state = "absent"
             /\ \A u \in Clients :
                  client'[u].kind = "request" /\ client'[u].about = client'[t].about => u = t
  <2>1. t \notin done /\ client'[t] = client[t]
    BY <1>1, <1>2
  <2>2. /\ client[t].about \in Commands
        /\ command[client[t].about].state = "absent"
        /\ \A u \in Clients :
             client[u].kind = "request" /\ client[u].about = client[t].about => u = t
    BY <1>2, <2>1 DEF Inv, ClientInv
  <2>3. \A u \in Clients : client'[u].kind = "request" => client'[u] = client[u]
    BY <1>1
  <2>4. ~(\E u \in done : client[u].kind = "request" /\ client[u].about = client[t].about)
    BY <2>1, <2>2
  <2> QED BY <2>1, <2>2, <2>3, <2>4
<1>3. ASSUME NEW t \in Clients, client'[t].kind # "idle"
      PROVE  /\ client'[t].kind = "provision" => client'[t].about \in Organizations
             /\ client'[t].kind = "revoke" => client'[t].about \in Target
             /\ client'[t].workflow \in Workflows
  BY <1>1, <1>3 DEF Inv, ClientInv
<1>4. \A t \in Clients :
        /\ client'[t].kind = "provision" => client'[t].about \in Organizations
        /\ client'[t].kind = "revoke" => client'[t].about \in Target
        /\ client'[t].kind # "idle" => client'[t].workflow \in Workflows
  BY <1>3
<1> QED BY <1>2, <1>4 DEF ClientInv

LEMMA ClientsAfter ==
  ASSUME TypeOK, UNCHANGED client \/ \E t \in Clients : End(t)
  PROVE  client' \in [Clients -> ClientRow]
<1>1. Idle \in ClientRow
  BY DEF Idle, ClientRow
<1> QED BY <1>1 DEF TypeOK, End

-----------------------------------------------------------------------------
(* Each action.                                                            *)

LEMMA InitInv == Init => Inv
<1> SUFFICES ASSUME Init PROVE Inv
  OBVIOUS
<1>1. /\ NoCommand \in CommandRow /\ NoChallenge \in ChallengeRow
      /\ NoCarrier \in CarrierRow /\ Idle \in ClientRow
  BY DEF NoCommand, CommandRow, NoChallenge, ChallengeRow, NoCarrier, CarrierRow, Idle, ClientRow
<1>2. /\ NoMembership \in Numbered /\ [number |-> 0, current |-> FALSE] \in Numbered
      /\ NoRole \in [organization : Organizations \cup {"none"}, number : Nat]
      /\ OpenRenewal \in [active : BOOLEAN, revoked : BOOLEAN, granted : BOOLEAN]
  BY DEF NoMembership, Numbered, NoRole, OpenRenewal
<1>3. TypeOK
  BY <1>1, <1>2 DEF Init, TypeOK
<1>4. RowsInv
  BY DEF Init, RowsInv, Agree, NoCommand, NoChallenge
<1>5. ClientInv
  BY DEF Init, ClientInv, Idle, NoChallenge
<1> QED BY <1>3, <1>4, <1>5 DEF Inv

LEMMA BeginInv ==
  ASSUME Inv, NEW t \in Clients, NEW kind \in {"request", "provision", "revoke"},
         NEW w \in Workflows, NEW about \in Commands \cup Organizations \cup Target,
         Begin(t, kind, w, about),
         kind = "request" => /\ about \in Commands /\ command[about].state = "absent"
                             /\ \A u \in Clients : client[u].about # about,
         kind = "provision" => about \in Organizations,
         kind = "revoke" => about \in Target
  PROVE  Inv'
<1> DEFINE row == [kind |-> kind, workflow |-> w, about |-> about, pending |-> PendingOf(w)]
<1>1. row \in ClientRow
  BY DEF ClientRow, PendingOf
<1>2. client' = [client EXCEPT ![t] = row]
  BY DEF Begin
<1>3. UNCHANGED <<authority, renewal, outcomes, carrier, session, disclosures, aborted>>
  BY DEF Begin
<1>4. row.kind = kind /\ row.workflow = w /\ row.about = about
  OBVIOUS
<1> HIDE DEF row
<1>5. TypeOK'
  BY <1>1, <1>2, <1>3 DEF Inv, TypeOK, authority, outcomes
<1>6. RowsInv'
  BY <1>3 DEF Inv, RowsInv, outcomes
<1>7. /\ client'[t] = row
      /\ \A u \in Clients : u # t => client'[u] = client[u]
  BY <1>2 DEF Inv, TypeOK
<1>8. ClientInv'
  BY <1>3, <1>4, <1>7 DEF Inv, ClientInv, outcomes
<1> QED BY <1>5, <1>6, <1>8 DEF Inv

(* A transaction, or whoever else resolves Challenges without deciding     *)
(* about another Command.                                                  *)
LEMMA ResolvingInv ==
  ASSUME Inv, NEW ending, Ending(ending), Resolve(ending),
         UNCHANGED client \/ \E t \in Clients : End(t),
         UNCHANGED disclosures
  PROVE  /\ RowsInv' /\ ClientInv'
         /\ command' \in [Commands -> CommandRow]
         /\ challenge' \in [Commands -> ChallengeRow]
         /\ client' \in [Clients -> ClientRow]
<1>1. /\ RowsInv'
      /\ command' \in [Commands -> CommandRow]
      /\ challenge' \in [Commands -> ChallengeRow]
      /\ \A c \in Commands :
           /\ command'[c].state = "absent" <=> command[c].state = "absent"
           /\ challenge'[c].state = "pending" => challenge'[c] = challenge[c]
  BY ResolveKeeps DEF Inv
<1>2. client' \in [Clients -> ClientRow]
  BY ClientsAfter DEF Inv
<1>3. \A c \in Commands : challenge'[c].state = "pending" => challenge'[c].workflow \in Workflows
  BY <1>1 DEF Inv, ClientInv
<1>4. PICK done \in SUBSET Clients :
        client' = [u \in Clients |-> IF u \in done THEN Idle ELSE client[u]]
  <2>1. CASE UNCHANGED client
    <3>1. client' = [u \in Clients |-> IF u \in {} THEN Idle ELSE client[u]]
      BY <2>1 DEF Inv, TypeOK
    <3> DEFINE nobody == {}
    <3>2. nobody \in SUBSET Clients
      OBVIOUS
    <3>3. client' = [u \in Clients |-> IF u \in nobody THEN Idle ELSE client[u]]
      BY <3>1
    <3> HIDE DEF nobody
    <3> QED BY <3>2, <3>3
  <2>2. ASSUME NEW t \in Clients, End(t)
        PROVE  client' = [u \in Clients |-> IF u \in {t} THEN Idle ELSE client[u]]
    BY <2>2 DEF Inv, TypeOK, End
  <2> QED BY <2>1, <2>2
<1>5. ClientInv'
  BY <1>1, <1>3, <1>4, RequestsKept
<1> QED BY <1>1, <1>2, <1>5

LEMMA RefuseRequestInv ==
  ASSUME Inv, NEW t \in Clients, RefuseRequest(t)
  PROVE  Inv'
<1> DEFINE w == client[t].workflow
           verdict == Authorize(w)
           set == IF verdict = "approval_required" THEN {} ELSE client[t].pending
<1>1. verdict \in Resolution
  BY AuthorizeResolves DEF RefuseRequest
<1>2. Resolve(All(set, verdict)) /\ End(t)
      /\ UNCHANGED <<authority, renewal, carrier, session, disclosures, aborted>>
  BY DEF RefuseRequest
<1>3. Ending(All(set, verdict))
  BY <1>1, AllEnds
<1>4. /\ RowsInv' /\ ClientInv'
      /\ command' \in [Commands -> CommandRow]
      /\ challenge' \in [Commands -> ChallengeRow]
      /\ client' \in [Clients -> ClientRow]
  BY <1>2, <1>3, ResolvingInv
<1> QED BY <1>2, <1>4 DEF Inv, TypeOK, authority

(* A Command that a request decides about, with the Challenges it found    *)
(* pending.                                                                *)
Decides(t, ending, k, h, delivered) ==
  /\ command' = [CommandsResolved(ending) EXCEPT ![client[t].about] = k]
  /\ challenge' = [Challenges(ending) EXCEPT ![client[t].about] = h]
  /\ disclosures' = [disclosures EXCEPT ![client[t].about] = delivered]

LEMMA RequestedInv ==
  ASSUME Inv, NEW t \in Clients, client[t].kind = "request", End(t),
         NEW ending, Ending(ending),
         NEW k \in CommandRow, NEW h \in ChallengeRow, NEW delivered \in Nat,
         Decides(t, ending, k, h, delivered),
         Agree(k, h, delivered), k.state # "absent",
         h.state = "pending" => h.workflow \in Workflows
  PROVE  /\ RowsInv' /\ ClientInv'
         /\ command' \in [Commands -> CommandRow]
         /\ challenge' \in [Commands -> ChallengeRow]
         /\ disclosures' \in [Commands -> Nat]
         /\ client' \in [Clients -> ClientRow]
<1> DEFINE about == client[t].about
           commands == CommandsResolved(ending)
           challenges == Challenges(ending)
<1>1. /\ about \in Commands /\ disclosures \in [Commands -> Nat]
      /\ command \in [Commands -> CommandRow] /\ challenge \in [Commands -> ChallengeRow]
  BY DEF Inv, ClientInv, TypeOK
<1>2. /\ commands \in [Commands -> CommandRow]
      /\ challenges \in [Commands -> ChallengeRow]
      /\ \A x \in Commands :
           /\ Agree(commands[x], challenges[x], disclosures[x])
           /\ commands[x].state = "absent" <=> command[x].state = "absent"
           /\ challenges[x].state = "pending" => challenges[x] = challenge[x]
  BY <1>1, EndingAgrees DEF Inv, RowsInv
<1>3. /\ command' = [commands EXCEPT ![about] = k] /\ challenge' = [challenges EXCEPT ![about] = h]
      /\ disclosures' = [disclosures EXCEPT ![about] = delivered]
  BY DEF Decides
<1> HIDE DEF about, commands, challenges
<1>4. /\ command' \in [Commands -> CommandRow]
      /\ challenge' \in [Commands -> ChallengeRow]
      /\ disclosures' \in [Commands -> Nat]
  BY <1>1, <1>2, <1>3
<1>5. \A c \in Commands :
        IF c = about THEN command'[c] = k /\ challenge'[c] = h /\ disclosures'[c] = delivered
        ELSE command'[c] = commands[c] /\ challenge'[c] = challenges[c]
             /\ disclosures'[c] = disclosures[c]
  BY <1>1, <1>2, <1>3
<1>6. RowsInv'
  BY <1>2, <1>5 DEF RowsInv
<1>7. client' \in [Clients -> ClientRow]
  BY ClientsAfter DEF Inv
<1>8. \A c \in Commands : challenge'[c].state = "pending" => challenge'[c].workflow \in Workflows
  BY <1>2, <1>5 DEF Inv, ClientInv
<1>9. client' = [u \in Clients |-> IF u \in {t} THEN Idle ELSE client[u]]
  BY DEF Inv, TypeOK, End
<1>10. ASSUME NEW c \in Commands, command[c].state = "absent",
              ~(\E u \in {t} : client[u].kind = "request" /\ client[u].about = c)
       PROVE  command'[c].state = "absent"
  <2>1. c # about
    BY <1>10 DEF about
  <2> QED BY <1>2, <1>5, <1>10, <2>1
<1>11. ClientInv'
  BY <1>8, <1>9, <1>10, RequestsKept
<1> QED BY <1>4, <1>6, <1>7, <1>11

LEMMA AuthorizeRequestInv ==
  ASSUME Inv, NEW t \in Clients, AuthorizeRequest(t)
  PROVE  Inv'
<1> DEFINE c == client[t].about
           ending == Reconciled(client[t].pending)
           k == [state |-> "authorized", outcome |-> "authorized"]
           h == Challenges(ending)[c]
<1>1. /\ client[t].kind = "request" /\ End(t)
      /\ challenge' = Challenges(ending)
      /\ command' = [CommandsResolved(ending) EXCEPT ![c] = k]
      /\ disclosures' = [disclosures EXCEPT ![c] = @ + 1]
      /\ UNCHANGED <<authority, renewal, carrier, session, aborted>>
  BY DEF AuthorizeRequest
<1>2. /\ c \in Commands /\ command[c].state = "absent"
      /\ Agree(command[c], challenge[c], disclosures[c])
  BY <1>1 DEF Inv, ClientInv, RowsInv
<1>3. Ending(ending)
  BY ReconciledEnds
<1>4. command \in [Commands -> CommandRow] /\ challenge \in [Commands -> ChallengeRow]
      /\ disclosures \in [Commands -> Nat]
  BY DEF Inv, TypeOK
<1>5. disclosures[c] = 0 /\ challenge[c].state = "absent"
  BY <1>2 DEF Agree
<1> HIDE DEF ending
<1>6. Challenges(ending) \in [Commands -> ChallengeRow] /\ h.state = "absent"
  BY <1>2, <1>3, <1>4, <1>5, EndingAgrees
<1>7. challenge' = [Challenges(ending) EXCEPT ![c] = h]
  BY <1>1, <1>2, <1>6
<1>8. k \in CommandRow /\ h \in ChallengeRow
  BY <1>2, <1>6 DEF CommandRow
<1>9. disclosures' = [disclosures EXCEPT ![c] = 1]
  BY <1>1, <1>2, <1>4, <1>5
<1>10. Agree(k, h, 1) /\ k.state # "absent"
  BY <1>6 DEF Agree
<1>11. Decides(t, ending, k, h, 1)
  BY <1>1, <1>7, <1>9 DEF Decides
<1> HIDE DEF k, h
<1>12. /\ RowsInv' /\ ClientInv'
       /\ command' \in [Commands -> CommandRow]
       /\ challenge' \in [Commands -> ChallengeRow]
       /\ disclosures' \in [Commands -> Nat]
       /\ client' \in [Clients -> ClientRow]
  BY <1>1, <1>3, <1>6, <1>8, <1>10, <1>11, RequestedInv
<1> QED BY <1>1, <1>12 DEF Inv, TypeOK, authority

LEMMA ChallengeRequestInv ==
  ASSUME Inv, NEW t \in Clients, ChallengeRequest(t)
  PROVE  Inv'
<1> DEFINE c == client[t].about
           ending == Reconciled(client[t].pending)
           k == [state |-> "waiting", outcome |-> "none"]
           h == [NoChallenge EXCEPT !.state = "pending", !.workflow = client[t].workflow,
                                    !.identifier = identifier.number]
           started == [NoCarrier EXCEPT !.lifecycle = "active"]
<1>1. /\ client[t].kind = "request" /\ End(t)
      /\ challenge' = [Challenges(ending) EXCEPT ![c] = h]
      /\ command' = [CommandsResolved(ending) EXCEPT ![c] = k]
      /\ carrier' = [carrier EXCEPT ![c] = started]
      /\ UNCHANGED <<authority, renewal, session, disclosures, aborted>>
  BY DEF ChallengeRequest
<1>2. /\ c \in Commands /\ command[c].state = "absent"
      /\ Agree(command[c], challenge[c], disclosures[c])
      /\ client[t].workflow \in Workflows
  BY <1>1 DEF Inv, ClientInv, RowsInv
<1>3. Ending(ending)
  BY ReconciledEnds
<1>4. disclosures[c] = 0 /\ disclosures \in [Commands -> Nat] /\ identifier \in Numbered
  BY <1>2 DEF Agree, Inv, TypeOK
<1> HIDE DEF ending
<1>5. /\ h.state = "pending" /\ h.workflow = client[t].workflow /\ h \in ChallengeRow
      /\ k \in CommandRow
  BY <1>2, <1>4 DEF CommandRow, ChallengeRow, NoChallenge, Numbered
<1>6. disclosures' = [disclosures EXCEPT ![c] = 0]
  BY <1>1, <1>2, <1>4
<1>7. Agree(k, h, 0) /\ k.state # "absent"
  BY <1>5 DEF Agree
<1>8. Decides(t, ending, k, h, 0)
  BY <1>1, <1>6 DEF Decides
<1>9. started \in CarrierRow
  BY DEF NoCarrier, CarrierRow
<1> HIDE DEF k, h, started
<1>10. carrier' \in [Commands -> CarrierRow]
  BY <1>1, <1>9 DEF Inv, TypeOK
<1>11. /\ RowsInv' /\ ClientInv'
       /\ command' \in [Commands -> CommandRow]
       /\ challenge' \in [Commands -> ChallengeRow]
       /\ disclosures' \in [Commands -> Nat]
       /\ client' \in [Clients -> ClientRow]
  BY <1>1, <1>2, <1>3, <1>5, <1>7, <1>8, RequestedInv
<1> QED BY <1>1, <1>10, <1>11 DEF Inv, TypeOK, authority

LEMMA ProvisionInv ==
  ASSUME Inv, NEW t \in Clients, NEW replace \in BOOLEAN, Provision(t, replace)
  PROVE  Inv'
<1> DEFINE w == client[t].workflow
           o == client[t].about
           newer == Provisioned(replace)
           ending == Superseded(client[t].pending, newer.number)
<1>1. /\ client[t].kind = "provision" /\ End(t)
      /\ identifier' = newer
      /\ membership' = [membership EXCEPT ![o] = Member(o)]
      /\ role' = [role EXCEPT ![w] = RoleOf(o)]
      /\ Resolve(ending)
      /\ UNCHANGED <<renewal, carrier, session, disclosures, aborted>>
  BY DEF Provision
<1>2. w \in Workflows /\ o \in Organizations
  BY <1>1 DEF Inv, ClientInv
<1>3. /\ identifier \in Numbered
      /\ membership \in [Organizations -> Numbered]
      /\ role \in [Workflows -> [organization : Organizations \cup {"none"}, number : Nat]]
  BY DEF Inv, TypeOK
<1>4. newer \in Numbered
  BY <1>3 DEF Provisioned, Numbered
<1>5. Member(o) \in Numbered
  BY <1>2, <1>3 DEF Member, Numbered
<1>6. RoleOf(o) \in [organization : Organizations \cup {"none"}, number : Nat]
  BY <1>2, <1>5 DEF RoleOf, Numbered
<1>7. /\ membership' \in [Organizations -> Numbered]
      /\ role' \in [Workflows -> [organization : Organizations \cup {"none"}, number : Nat]]
  BY <1>1, <1>2, <1>3, <1>5, <1>6
<1>8. Ending(ending)
  BY AllEnds DEF Superseded, Resolution
<1> HIDE DEF newer, ending
<1>9. /\ RowsInv' /\ ClientInv'
      /\ command' \in [Commands -> CommandRow]
      /\ challenge' \in [Commands -> ChallengeRow]
      /\ client' \in [Clients -> ClientRow]
  BY <1>1, <1>8, ResolvingInv
<1> QED BY <1>1, <1>4, <1>7, <1>9 DEF Inv, TypeOK

LEMMA AbortProvisionInv ==
  ASSUME Inv, NEW t \in Clients, AbortProvision(t)
  PROVE  Inv'
<1>1. /\ aborted' = aborted \cup {client[t].workflow} /\ client[t].kind = "provision"
      /\ End(t)
      /\ UNCHANGED <<authority, renewal, outcomes, carrier, session, disclosures>>
  BY DEF AbortProvision
<1>2. client[t].workflow \in Workflows
  BY <1>1 DEF Inv, ClientInv
<1>3. client' \in [Clients -> ClientRow]
  BY <1>1, ClientsAfter DEF Inv
<1>4. TypeOK'
  BY <1>1, <1>2, <1>3 DEF Inv, TypeOK, authority, outcomes
<1>5. RowsInv'
  BY <1>1 DEF Inv, RowsInv, outcomes
<1>6. client' = [u \in Clients |-> IF u \in {t} THEN Idle ELSE client[u]]
  BY <1>1 DEF Inv, TypeOK, End
<1>7. ClientInv'
  <2>1. \A c \in Commands : challenge'[c].state = "pending" => challenge'[c].workflow \in Workflows
    BY <1>1 DEF Inv, ClientInv, outcomes
  <2>2. \A c \in Commands : command[c].state = "absent" => command'[c].state = "absent"
    BY <1>1 DEF outcomes
  <2> QED BY <1>6, <2>1, <2>2, RequestsKept
<1> QED BY <1>4, <1>5, <1>7 DEF Inv

LEMMA RevokeInv ==
  ASSUME Inv, NEW t \in Clients, Revoke(t)
  PROVE  Inv'
<1> DEFINE w == client[t].workflow
           target == client[t].about
           ending == All(client[t].pending,
                         IF target = "identifier" THEN "identifier_revoked" ELSE "authority_revoked")
<1>1. /\ client[t].kind = "revoke" /\ End(t)
      /\ Revoked(target, w)
      /\ Resolve(ending)
      /\ UNCHANGED <<renewal, carrier, session, disclosures, aborted>>
  BY DEF Revoke
<1>2. w \in Workflows /\ target \in Target
  BY <1>1 DEF Inv, ClientInv
<1>3. /\ identifier \in Numbered
      /\ membership \in [Organizations -> Numbered]
      /\ role \in [Workflows -> [organization : Organizations \cup {"none"}, number : Nat]]
  BY DEF Inv, TypeOK
<1>4. NoRole \in [organization : Organizations \cup {"none"}, number : Nat]
  BY DEF NoRole
<1>5. /\ identifier' \in Numbered
      /\ membership' \in [Organizations -> Numbered]
      /\ role' \in [Workflows -> [organization : Organizations \cup {"none"}, number : Nat]]
  <2>1. CASE target = "identifier"
    <3>1. identifier' = [identifier EXCEPT !.current = FALSE] /\ UNCHANGED <<membership, role>>
      BY <1>1, <2>1 DEF Revoked
    <3> QED BY <1>3, <3>1 DEF Numbered
  <2>2. CASE target = "membership"
    <3>1. /\ UNCHANGED identifier
          /\ \/ /\ membership' = [membership EXCEPT ![role[w].organization].current = FALSE]
                /\ role' = [role EXCEPT ![w] = NoRole]
             \/ UNCHANGED <<membership, role>>
      BY <1>1, <2>2 DEF Revoked
    <3>2. ASSUME NEW x PROVE [membership EXCEPT ![x].current = FALSE] \in [Organizations -> Numbered]
      BY <1>3 DEF Numbered
    <3> QED BY <1>3, <1>4, <3>1, <3>2
  <2>3. CASE target = "workflow_role"
    <3>1. role' = [role EXCEPT ![w] = NoRole] /\ UNCHANGED <<identifier, membership>>
      BY <1>1, <2>3 DEF Revoked
    <3> QED BY <1>3, <1>4, <3>1
  <2> QED BY <1>2, <2>1, <2>2, <2>3 DEF Target
<1>6. Ending(ending)
  BY AllEnds DEF Resolution
<1> HIDE DEF ending
<1>7. /\ RowsInv' /\ ClientInv'
      /\ command' \in [Commands -> CommandRow]
      /\ challenge' \in [Commands -> ChallengeRow]
      /\ client' \in [Clients -> ClientRow]
  BY <1>1, <1>6, ResolvingInv
<1> QED BY <1>1, <1>5, <1>7 DEF Inv, TypeOK

(* Nobody's transaction ends.                                              *)
LEMMA SubmittingInv ==
  ASSUME Inv, NEW ending, Ending(ending), Resolve(ending),
         carrier' \in [Commands -> CarrierRow],
         UNCHANGED <<authority, renewal, session, disclosures, client, aborted>>
  PROVE  Inv'
<1>1. /\ RowsInv' /\ ClientInv'
      /\ command' \in [Commands -> CommandRow]
      /\ challenge' \in [Commands -> ChallengeRow]
      /\ client' \in [Clients -> ClientRow]
  BY ResolvingInv
<1> QED BY <1>1 DEF Inv, TypeOK, authority

(* One Challenge and its Command change together, and no transaction ends. *)
LEMMA AnsweredInv ==
  ASSUME Inv, NEW c \in Commands, command[c].state # "absent", UNCHANGED client,
         command' \in [Commands -> CommandRow],
         challenge' \in [Commands -> ChallengeRow],
         Agree(command'[c], challenge'[c], disclosures'[c]),
         challenge'[c].workflow = challenge[c].workflow,
         challenge'[c].state = "pending" => challenge[c].state = "pending",
         \A x \in Commands : x # c =>
           /\ command'[x] = command[x] /\ challenge'[x] = challenge[x]
           /\ disclosures'[x] = disclosures[x]
  PROVE  RowsInv' /\ ClientInv'
<1>1. RowsInv'
  BY DEF Inv, RowsInv
<1>2. \A x \in Commands : challenge'[x].state = "pending" => challenge'[x].workflow \in Workflows
  BY DEF Inv, ClientInv
<1>3. \A x \in Commands : command[x].state = "absent" => command'[x].state = "absent"
  OBVIOUS
<1>4. ClientInv'
  BY <1>2, <1>3 DEF Inv, ClientInv
<1> QED BY <1>1, <1>4

LEMMA SubmitTooLateInv ==
  ASSUME Inv, NEW c \in Commands, SubmitTooLate(c)
  PROVE  Inv'
<1>1. /\ Resolve(Reconciled({c}))
      /\ UNCHANGED <<authority, renewal, carrier, session, disclosures, client, aborted>>
  BY DEF SubmitTooLate
<1>2. carrier' \in [Commands -> CarrierRow]
  BY <1>1 DEF Inv, TypeOK
<1> QED BY <1>1, <1>2, ReconciledEnds, SubmittingInv

LEMMA SubmitRejectedInv ==
  ASSUME Inv, NEW c \in Commands, SubmitRejected(c)
  PROVE  Inv'
<1> DEFINE verdict == Authorize(challenge[c].workflow)
<1>1. /\ verdict # "authorized" /\ Resolve(All({c}, verdict))
      /\ UNCHANGED <<authority, renewal, carrier, session, disclosures, client, aborted>>
  BY DEF SubmitRejected
<1>2. carrier' \in [Commands -> CarrierRow]
  BY <1>1 DEF Inv, TypeOK
<1>3. verdict \in Resolution
  BY <1>1, AuthorizeResolves
<1>4. Ending(All({c}, verdict))
  BY <1>3, AllEnds
<1> QED BY <1>1, <1>2, <1>4, SubmittingInv

LEMMA SubmitWrongInv ==
  ASSUME Inv, NEW c \in Commands, SubmitWrong(c)
  PROVE  Inv'
<1> DEFINE after == FailedCode(challenge[c])
           ending == All({c}, "verification_attempts_exhausted")
<1>1. /\ challenge[c].state = "pending"
      /\ challenge' = [challenge EXCEPT ![c] = after]
      /\ command' = IF after.state = "attempts_exhausted" THEN CommandsResolved(ending) ELSE command
      /\ UNCHANGED <<authority, renewal, carrier, session, disclosures, client, aborted>>
  BY DEF SubmitWrong, Answerable, Pending
<1>2. /\ command \in [Commands -> CommandRow] /\ challenge \in [Commands -> ChallengeRow]
      /\ Agree(command[c], challenge[c], disclosures[c])
  BY DEF Inv, TypeOK, RowsInv
<1>3. /\ after \in ChallengeRow /\ after.workflow = challenge[c].workflow
      /\ after.state \in {"pending", "attempts_exhausted"}
  <2> DEFINE old == challenge[c]
             state == IF old.failed + 1 >= MaxFailedCodes THEN "attempts_exhausted" ELSE old.state
  <2>1. old \in ChallengeRow /\ state \in {"pending", "attempts_exhausted"}
    BY <1>1, <1>2
  <2>2. after = [old EXCEPT !.failed = old.failed + 1, !.state = state]
    BY DEF FailedCode
  <2> HIDE DEF old, state, after
  <2> DEFINE failed == old.failed + 1
  <2>4. failed \in Nat
    BY <2>1 DEF ChallengeRow, old, failed
  <2>5. after = [old EXCEPT !.failed = failed, !.state = state]
    BY <2>2 DEF failed
  <2> HIDE DEF failed
  <2>6. state \in {"absent", "pending", "accepted"} \cup Terminal
    BY <2>1 DEF Terminal
  <2>7. after.workflow = old.workflow /\ after.state = state
    BY <2>1, <2>5 DEF ChallengeRow
  <2>8. after \in ChallengeRow
    BY <2>1, <2>4, <2>5, <2>6 DEF ChallengeRow
  <2>3. after \in ChallengeRow /\ after.workflow = old.workflow /\ after.state = state
    BY <2>7, <2>8
  <2> QED BY <2>1, <2>3 DEF old
<1> HIDE DEF after
<1>4. command[c].state = "waiting"
  BY <1>1, <1>2 DEF Agree
<1>5. /\ challenge' \in [Commands -> ChallengeRow] /\ challenge'[c] = after
      /\ \A x \in Commands : x # c => challenge'[x] = challenge[x]
  BY <1>1, <1>2, <1>3
<1>6. /\ command' \in [Commands -> CommandRow]
      /\ \A x \in Commands : x # c => command'[x] = command[x]
      /\ Agree(command'[c], after, disclosures[c])
  <2>1. CASE after.state = "pending"
    <3>1. command' = command
      BY <1>1, <2>1
    <3>2. Agree(command[c], after, disclosures[c])
      BY <1>1, <1>2, <1>4, <2>1 DEF Agree
    <3> QED BY <1>2, <3>1, <3>2
  <2>2. CASE after.state = "attempts_exhausted"
    <3>1. command' = CommandsResolved(ending)
      BY <1>1, <2>2
    <3>2. Ending(ending)
      BY AllEnds DEF Resolution
    <3>3. CommandsResolved(ending) \in [Commands -> CommandRow]
      BY <1>2, <3>2, EndingAgrees
    <3>4. /\ \A x \in Commands : x # c => CommandsResolved(ending)[x] = command[x]
          /\ CommandsResolved(ending)[c] =
               [state |-> "rejected", outcome |-> "verification_attempts_exhausted"]
      BY <1>4 DEF CommandsResolved, All
    <3>5. TerminalState("verification_attempts_exhausted") = "attempts_exhausted"
      BY DEF TerminalState
    <3>6. Agree([state |-> "rejected", outcome |-> "verification_attempts_exhausted"], after,
                disclosures[c])
      BY <1>2, <1>4, <2>2, <3>5 DEF Agree
    <3> QED BY <3>1, <3>3, <3>4, <3>6
  <2> QED BY <1>3, <2>1, <2>2
<1>7. RowsInv' /\ ClientInv'
  BY <1>1, <1>3, <1>4, <1>5, <1>6, AnsweredInv
<1> QED BY <1>1, <1>5, <1>6, <1>7 DEF Inv, TypeOK, authority

LEMMA SubmitAcceptedInv ==
  ASSUME Inv, NEW c \in Commands, SubmitAccepted(c)
  PROVE  Inv'
<1> DEFINE after == [challenge[c] EXCEPT !.state = "accepted"]
           k == [state |-> "authorized", outcome |-> "authorized"]
<1>1. /\ challenge[c].state = "pending"
      /\ challenge' = [challenge EXCEPT ![c] = after]
      /\ session' = [session EXCEPT ![c] = "live"]
      /\ disclosures' = [disclosures EXCEPT ![c] = @ + 1]
      /\ command' = IF command[c].state = "waiting" THEN [command EXCEPT ![c] = k] ELSE command
      /\ UNCHANGED <<authority, renewal, carrier, client, aborted>>
  BY DEF SubmitAccepted, Answerable, Pending
<1>2. /\ command \in [Commands -> CommandRow] /\ challenge \in [Commands -> ChallengeRow]
      /\ disclosures \in [Commands -> Nat] /\ session \in [Commands -> {"none", "live", "expired"}]
      /\ Agree(command[c], challenge[c], disclosures[c])
  BY DEF Inv, TypeOK, RowsInv
<1>3. /\ after \in ChallengeRow /\ after.workflow = challenge[c].workflow
      /\ after.state = "accepted"
  <2>1. challenge[c] \in ChallengeRow
    BY <1>2
  <2> QED BY <2>1 DEF ChallengeRow
<1> HIDE DEF after
<1>4. command[c].state = "waiting" /\ disclosures[c] = 0
  BY <1>1, <1>2 DEF Agree
<1>5. /\ challenge' \in [Commands -> ChallengeRow] /\ challenge'[c] = after
      /\ \A x \in Commands : x # c => challenge'[x] = challenge[x]
  BY <1>1, <1>2, <1>3
<1>6. k \in CommandRow /\ Agree(k, after, 1)
  BY <1>3 DEF CommandRow, Agree
<1> HIDE DEF k
<1>7. /\ command' \in [Commands -> CommandRow] /\ command'[c] = k
      /\ \A x \in Commands : x # c => command'[x] = command[x]
  BY <1>1, <1>2, <1>4, <1>6
<1>8. /\ disclosures' \in [Commands -> Nat] /\ disclosures'[c] = 1
      /\ \A x \in Commands : x # c => disclosures'[x] = disclosures[x]
  BY <1>1, <1>2, <1>4
<1>9. session' \in [Commands -> {"none", "live", "expired"}]
  BY <1>1, <1>2
<1>10. command[c].state # "absent" /\ UNCHANGED client
  BY <1>1, <1>4
<1>11. RowsInv' /\ ClientInv'
  BY <1>3, <1>5, <1>6, <1>7, <1>8, <1>10, AnsweredInv
<1> QED BY <1>1, <1>5, <1>7, <1>8, <1>9, <1>11 DEF Inv, TypeOK, authority

(* What the worker of the carrier does to its row alone.                   *)
LEMMA CarriedInv ==
  ASSUME Inv, NEW c \in Commands, NEW row \in CarrierRow,
         carrier' = [carrier EXCEPT ![c] = row],
         UNCHANGED <<authority, renewal, outcomes, session, disclosures, client, aborted>>
  PROVE  Inv'
<1>1. carrier' \in [Commands -> CarrierRow]
  BY DEF Inv, TypeOK
<1>2. TypeOK'
  BY <1>1 DEF Inv, TypeOK, authority, outcomes
<1>3. RowsInv' /\ ClientInv'
  BY DEF Inv, RowsInv, ClientInv, outcomes
<1> QED BY <1>2, <1>3 DEF Inv

LEMMA CarrierMoves ==
  ASSUME Inv, NEW c \in Commands, NEW lifecycle \in {"completed", "failed"}
  PROVE  /\ [carrier[c] EXCEPT !.number = @ + 1, !.lease = "live"] \in CarrierRow
         /\ \A lease \in {"none", "lapsed"} : [carrier[c] EXCEPT !.lease = lease] \in CarrierRow
         /\ \A code \in {"delivered", "failed"} : [carrier[c] EXCEPT !.code = code] \in CarrierRow
         /\ Finished(c, lifecycle) \in CarrierRow
         /\ [Finished(c, lifecycle) EXCEPT !.code = "pending"] \in CarrierRow
<1> DEFINE old == carrier[c]
<1>1. old \in CarrierRow
  BY DEF Inv, TypeOK
<1>2. Finished(c, lifecycle) = [old EXCEPT !.lifecycle = lifecycle, !.lease = "none"]
  BY DEF Finished
<1> HIDE DEF old
<1>3. Finished(c, lifecycle) \in CarrierRow
  BY <1>1, <1>2 DEF CarrierRow
<1>4. [Finished(c, lifecycle) EXCEPT !.code = "pending"] \in CarrierRow
  BY <1>3 DEF CarrierRow
<1>6. [old EXCEPT !.number = @ + 1, !.lease = "live"] \in CarrierRow
  <2> DEFINE next == old.number + 1
  <2>1. next \in Nat
    BY <1>1 DEF CarrierRow
  <2>2. [old EXCEPT !.number = @ + 1, !.lease = "live"] =
          [old EXCEPT !.number = next, !.lease = "live"]
    BY DEF next
  <2> HIDE DEF next
  <2>3. [old EXCEPT !.number = next, !.lease = "live"] \in CarrierRow
    BY <1>1, <2>1 DEF CarrierRow
  <2> QED BY <2>2, <2>3
<1>5. /\ \A lease \in {"none", "lapsed"} : [old EXCEPT !.lease = lease] \in CarrierRow
      /\ \A code \in {"delivered", "failed"} : [old EXCEPT !.code = code] \in CarrierRow
  BY <1>1 DEF CarrierRow
<1> QED BY <1>3, <1>4, <1>5, <1>6 DEF old

LEMMA WorkInv ==
  ASSUME Inv, NEW c \in Commands, Work(c)
  PROVE  Inv'
<1>1. carrier \in [Commands -> CarrierRow]
  BY DEF Inv, TypeOK
<1>2. CASE ClaimCode(c)
  <2>1. /\ carrier' = [carrier EXCEPT ![c] = [carrier[c] EXCEPT !.number = @ + 1, !.lease = "live"]]
        /\ UNCHANGED <<authority, renewal, outcomes, session, disclosures, client, aborted>>
    BY <1>1, <1>2 DEF ClaimCode
  <2> QED BY <2>1, CarrierMoves, CarriedInv
<1>3. CASE AcceptRefused(c)
  <2> DEFINE ending == All({c}, IF Pending(c) THEN Unsuitable(c) ELSE "none")
  <2>1. /\ carrier' = [carrier EXCEPT ![c] = Finished(c, "failed")]
        /\ Resolve(ending)
        /\ UNCHANGED <<authority, renewal, session, disclosures, client, aborted>>
    BY <1>3 DEF AcceptRefused
  <2>2. (IF Pending(c) THEN Unsuitable(c) ELSE "none") \in Resolution \cup {"none"}
    BY DEF Unsuitable, Resolution
  <2>3. Ending(ending)
    BY <2>2, AllEnds
  <2>4. carrier' \in [Commands -> CarrierRow]
    BY <1>1, <2>1, CarrierMoves
  <2> HIDE DEF ending
  <2> QED BY <2>1, <2>3, <2>4, SubmittingInv
<1>4. CASE AcceptCode(c)
  <2>1. /\ carrier' = [carrier EXCEPT ![c] = [Finished(c, "completed") EXCEPT !.code = "pending"]]
        /\ UNCHANGED <<authority, renewal, outcomes, session, disclosures, client, aborted>>
    BY <1>4 DEF AcceptCode
  <2> QED BY <2>1, CarrierMoves, CarriedInv
<1>5. CASE LapseCode(c)
  <2>1. /\ carrier' = [carrier EXCEPT ![c] = [carrier[c] EXCEPT !.lease = "lapsed"]]
        /\ UNCHANGED <<authority, renewal, outcomes, session, disclosures, client, aborted>>
    BY <1>1, <1>5 DEF LapseCode
  <2> QED BY <2>1, CarrierMoves, CarriedInv
<1>6. CASE RecoverCode(c)
  <2>1. CASE /\ carrier' = [carrier EXCEPT ![c].lease = "none"] /\ UNCHANGED outcomes
             /\ UNCHANGED <<authority, renewal, session, disclosures, client, aborted>>
    <3>1. carrier' = [carrier EXCEPT ![c] = [carrier[c] EXCEPT !.lease = "none"]]
      BY <1>1, <2>1
    <3> QED BY <2>1, <3>1, CarrierMoves, CarriedInv
  <2>2. CASE /\ carrier' = [carrier EXCEPT ![c] = Finished(c, "failed")] /\ Resolve(GivenUp(c))
             /\ UNCHANGED <<authority, renewal, session, disclosures, client, aborted>>
    <3>1. Ending(GivenUp(c))
      BY AllEnds DEF GivenUp, Resolution
    <3>2. carrier' \in [Commands -> CarrierRow]
      BY <1>1, <2>2, CarrierMoves
    <3> QED BY <2>2, <3>1, <3>2, SubmittingInv
  <2> QED BY <1>6, <2>1, <2>2 DEF RecoverCode
<1>7. CASE DeliverCode(c)
  <2>1. PICK status \in {"delivered", "failed"} :
          /\ carrier' = [carrier EXCEPT ![c].code = status]
          /\ UNCHANGED <<authority, renewal, outcomes, session, disclosures, client, aborted>>
    BY <1>7 DEF DeliverCode
  <2>2. carrier' = [carrier EXCEPT ![c] = [carrier[c] EXCEPT !.code = status]]
    BY <1>1, <2>1
  <2> QED BY <2>1, <2>2, CarrierMoves, CarriedInv
<1> QED BY <1>2, <1>3, <1>4, <1>5, <1>6, <1>7 DEF Work

LEMMA ElsewhereInv ==
  ASSUME Inv, Elsewhere
  PROVE  Inv'
<1>1. ASSUME NEW c \in Commands, ExpireChallenge(c)
      PROVE  Inv'
  <2> DEFINE old == challenge[c]
             after == [old EXCEPT !.expired = TRUE]
  <2>1. /\ challenge' = [challenge EXCEPT ![c] = after]
        /\ UNCHANGED <<authority, renewal, command, carrier, session, disclosures, client, aborted>>
        /\ challenge \in [Commands -> ChallengeRow] /\ old \in ChallengeRow
        /\ command[c].state = "waiting"
    BY <1>1 DEF ExpireChallenge, Inv, TypeOK, Pending, RowsInv, Agree
  <2> HIDE DEF old
  <2>2. after \in ChallengeRow /\ after.state = old.state /\ after.workflow = old.workflow
    BY <2>1 DEF ChallengeRow
  <2> HIDE DEF after
  <2>3. /\ challenge' \in [Commands -> ChallengeRow] /\ challenge'[c] = after
        /\ \A x \in Commands : x # c => challenge'[x] = challenge[x]
    BY <2>1, <2>2
  <2>4. Agree(command[c], after, disclosures[c])
    BY <2>2 DEF Inv, RowsInv, Agree, old
  <2>5. TypeOK'
    BY <2>1, <2>3 DEF Inv, TypeOK, authority
  <2>6. RowsInv' /\ ClientInv'
    <3>1. /\ command' \in [Commands -> CommandRow] /\ UNCHANGED client
          /\ command' = command /\ disclosures' = disclosures
      BY <2>1 DEF Inv, TypeOK
    <3>2. challenge'[c].workflow = challenge[c].workflow /\ challenge'[c].state = challenge[c].state
      BY <2>2, <2>3 DEF old
    <3>3. Agree(command'[c], challenge'[c], disclosures'[c])
      BY <2>3, <2>4, <3>1
    <3> QED BY <2>1, <2>3, <3>1, <3>2, <3>3, AnsweredInv
  <2> QED BY <2>5, <2>6 DEF Inv
<1>2. ASSUME NEW c \in Commands, ExpireSession(c)
      PROVE  Inv'
  BY <1>2 DEF ExpireSession, Inv, TypeOK, RowsInv, ClientInv, authority, outcomes
<1>3. ASSUME NEW w \in Workflows, NEW b \in BOOLEAN, RevokeRenewal(w, b) \/ CloseRenewal(w, b)
      PROVE  Inv'
  <2>1. UNCHANGED <<authority, outcomes, carrier, session, disclosures, client, aborted>>
    BY <1>3 DEF RevokeRenewal, CloseRenewal
  <2> DEFINE old == renewal[w]
             Rows == [active : BOOLEAN, revoked : BOOLEAN, granted : BOOLEAN]
  <2>2. renewal \in [Workflows -> Rows] /\ old \in Rows
    BY DEF Inv, TypeOK
  <2>3. \/ renewal' = [renewal EXCEPT ![w] = [old EXCEPT !.revoked = TRUE, !.granted = @ /\ b]]
        \/ renewal' = [renewal EXCEPT ![w] = [old EXCEPT !.active = FALSE, !.granted = @ /\ b]]
    BY <1>3 DEF RevokeRenewal, CloseRenewal, Inv, TypeOK
  <2> HIDE DEF old
  <2>4. /\ [old EXCEPT !.revoked = TRUE, !.granted = @ /\ b] \in Rows
        /\ [old EXCEPT !.active = FALSE, !.granted = @ /\ b] \in Rows
    BY <2>2
  <2> HIDE DEF Rows
  <2>5. renewal' \in [Workflows -> Rows]
    BY <2>2, <2>3, <2>4
  <2>6. TypeOK'
    BY <2>1, <2>5 DEF Inv, TypeOK, authority, outcomes, Rows
  <2>7. RowsInv' /\ ClientInv'
    BY <2>1 DEF Inv, RowsInv, ClientInv, outcomes
  <2> QED BY <2>6, <2>7 DEF Inv
<1> QED BY <1>1, <1>2, <1>3 DEF Elsewhere

LEMMA TransactInv ==
  ASSUME Inv, NEW t \in Clients, Transact(t)
  PROVE  Inv'
<1>1. CASE \E w \in Workflows, c \in Commands : BeginRequest(t, w, c)
  <2>1. PICK w \in Workflows, c \in Commands : BeginRequest(t, w, c)
    BY <1>1
  <2> QED BY <2>1, BeginInv DEF BeginRequest
<1>2. CASE \E w \in Workflows, o \in Organizations : BeginProvision(t, w, o)
  BY <1>2, BeginInv DEF BeginProvision
<1>3. CASE \E w \in Workflows, target \in Target : BeginRevoke(t, w, target)
  BY <1>3, BeginInv DEF BeginRevoke
<1>4. CASE RefuseRequest(t)
  BY <1>4, RefuseRequestInv
<1>5. CASE AuthorizeRequest(t)
  BY <1>5, AuthorizeRequestInv
<1>6. CASE ChallengeRequest(t)
  BY <1>6, ChallengeRequestInv
<1>7. CASE \E replace \in BOOLEAN : Provision(t, replace)
  BY <1>7, ProvisionInv
<1>8. CASE AbortProvision(t)
  BY <1>8, AbortProvisionInv
<1>9. CASE Revoke(t)
  BY <1>9, RevokeInv
<1> QED BY <1>1, <1>2, <1>3, <1>4, <1>5, <1>6, <1>7, <1>8, <1>9 DEF Transact

LEMMA NextInv ==
  ASSUME Inv, [Next]_vars
  PROVE  Inv'
<1>1. CASE \E t \in Clients : Transact(t)
  BY <1>1, TransactInv
<1>2. CASE \E c \in Commands : Submit(c)
  BY <1>2, SubmitTooLateInv, SubmitWrongInv, SubmitRejectedInv, SubmitAcceptedInv DEF Submit
<1>3. CASE \E c \in Commands : Work(c)
  BY <1>3, WorkInv
<1>4. CASE Elsewhere
  BY <1>4, ElsewhereInv
<1>5. CASE UNCHANGED vars
  <2>1. UNCHANGED <<identifier, membership, role, renewal, command, challenge, carrier,
                    session, disclosures, client, aborted>>
    BY <1>5 DEF vars, authority, outcomes
  <2> QED BY <2>1 DEF Inv, TypeOK, RowsInv, ClientInv
<1> QED BY <1>1, <1>2, <1>3, <1>4, <1>5 DEF Next

LEMMA InvAlways == Spec => []Inv
<1>1. Init => Inv
  BY InitInv
<1>2. Inv /\ [Next]_vars => Inv'
  BY NextInv
<1> QED BY <1>1, <1>2, PTL DEF Spec

-----------------------------------------------------------------------------
(* Every row keeps to the states the migrations name for it, and a client  *)
(* is in a transaction about something there is.                           *)
THEOREM VerificationTypeCorrect == Spec => []TypeOK
<1>1. Inv => TypeOK
  BY DEF Inv
<1> QED BY <1>1, InvAlways, PTL

(* A Command and its Challenge are resolved together, however many         *)
(* transactions read the pending Challenges before either is locked.       *)
THEOREM CommandsFollowChallenges == Spec => []CommandFollowsChallenge
<1>1. Inv => CommandFollowsChallenge
  BY DEF Inv, RowsInv, Agree, CommandFollowsChallenge
<1> QED BY <1>1, InvAlways, PTL

(* Protected details leave once for each authorized Command and for no     *)
(* other, for any number of requests, codes, revocations and expiries.     *)
THEOREM DetailsLeaveOnce == Spec => []DisclosedOnce
<1>1. Inv => DisclosedOnce
  BY DEF Inv, RowsInv, Agree, DisclosedOnce
<1> QED BY <1>1, InvAlways, PTL

-----------------------------------------------------------------------------
(* Where a Command is authorized, its authority was just checked.          *)

Checked(c) ==
  \E w \in Workflows :
    /\ challenge[c].workflow = w \/ \E t \in Clients : client[t].about = c /\ client[t].workflow = w
    /\ renewal[w].active /\ renewal[w].granted /\ ~renewal[w].revoked
    /\ identifier.current /\ BrokerAuthority(w)

Authorizes(c) == command'[c].state = "authorized" /\ command[c].state # "authorized"

LEMMA AuthorizedHasAuthority ==
  ASSUME NEW w, Authorize(w) = "authorized"
  PROVE  /\ renewal[w].active /\ renewal[w].granted /\ ~renewal[w].revoked
         /\ identifier.current /\ BrokerAuthority(w)
BY DEF Authorize

(* What resolves a Command otherwise never authorizes it.                  *)
LEMMA ResolvedIsNotAuthorized ==
  ASSUME NEW ending, NEW c \in Commands, command[c].state # "authorized"
  PROVE  CommandsResolved(ending)[c].state # "authorized"
BY DEF CommandsResolved

LEMMA TransactChecks ==
  ASSUME Inv, NEW t \in Clients, Transact(t), NEW c \in Commands, Authorizes(c)
  PROVE  Checked(c) /\ ActiveSession
<1>1. command' # command
  BY DEF Authorizes
<1>2. ASSUME NEW ending, Resolve(ending)
      PROVE  FALSE
  BY <1>2, ResolvedIsNotAuthorized DEF Resolve, Authorizes
<1>3. CASE AuthorizeRequest(t)
  <2> DEFINE ending == Reconciled(client[t].pending)
             w == client[t].workflow
  <2>1. /\ command' = [CommandsResolved(ending) EXCEPT
                         ![client[t].about] = [state |-> "authorized", outcome |-> "authorized"]]
        /\ Authorize(w) = "authorized" /\ ActiveSession /\ w \in Workflows
    BY <1>3 DEF AuthorizeRequest, Inv, ClientInv
  <2> HIDE DEF ending, w
  <2>2. CommandsResolved(ending) = [x \in Commands |-> CommandsResolved(ending)[x]]
    BY DEF CommandsResolved
  <2>3. c = client[t].about
    <3>1. SUFFICES ASSUME c # client[t].about PROVE FALSE
      OBVIOUS
    <3>2. command'[c] = CommandsResolved(ending)[c]
      BY <2>1, <2>2, <3>1
    <3> QED BY <3>2, ResolvedIsNotAuthorized DEF Authorizes
  <2> QED BY <2>1, <2>3, AuthorizedHasAuthority DEF Checked, w
<1>4. CASE ChallengeRequest(t)
  <2> DEFINE ending == Reconciled(client[t].pending)
  <2>1. command' = [CommandsResolved(ending) EXCEPT
                      ![client[t].about] = [state |-> "waiting", outcome |-> "none"]]
    BY <1>4 DEF ChallengeRequest
  <2> HIDE DEF ending
  <2>2. CommandsResolved(ending) = [x \in Commands |-> CommandsResolved(ending)[x]]
    BY DEF CommandsResolved
  <2>3. \/ command'[c] = CommandsResolved(ending)[c]
        \/ command'[c] = [state |-> "waiting", outcome |-> "none"]
    BY <2>1, <2>2
  <2> QED BY <2>3, ResolvedIsNotAuthorized DEF Authorizes
<1>5. CASE RefuseRequest(t) \/ (\E replace \in BOOLEAN : Provision(t, replace)) \/ Revoke(t)
  BY <1>2, <1>5 DEF RefuseRequest, Provision, Revoke
<1>6. CASE AbortProvision(t)
  BY <1>1, <1>6 DEF AbortProvision, outcomes
<1>7. CASE \E w \in Workflows, x \in Commands : BeginRequest(t, w, x)
  BY <1>1, <1>7 DEF BeginRequest, Begin, outcomes
<1>8. CASE \E w \in Workflows, o \in Organizations : BeginProvision(t, w, o)
  BY <1>1, <1>8 DEF BeginProvision, Begin, outcomes
<1>9. CASE \E w \in Workflows, target \in Target : BeginRevoke(t, w, target)
  BY <1>1, <1>9 DEF BeginRevoke, Begin, outcomes
<1> QED BY <1>3, <1>4, <1>5, <1>6, <1>7, <1>8, <1>9 DEF Transact

LEMMA AnswerChecks ==
  ASSUME Inv, NEW x \in Commands, Submit(x) \/ Work(x), NEW c \in Commands, Authorizes(c)
  PROVE  Checked(c) /\ challenge'[c].state = "accepted"
<1>1. command' # command
  BY DEF Authorizes
<1>2. ASSUME NEW ending, command' = CommandsResolved(ending)
      PROVE  FALSE
  BY <1>2, ResolvedIsNotAuthorized DEF Authorizes
<1>3. CASE SubmitAccepted(x)
  <2>1. /\ command' # command => command' = [command EXCEPT ![x] =
             [state |-> "authorized", outcome |-> "authorized"]]
        /\ Authorize(challenge[x].workflow) = "authorized"
        /\ challenge[x].state = "pending"
        /\ challenge' = [challenge EXCEPT ![x].state = "accepted"]
    BY <1>3 DEF SubmitAccepted, Answerable, Pending
  <2>2. challenge[x].workflow \in Workflows
    BY <2>1 DEF Inv, ClientInv
  <2>3. c = x
    BY <1>1, <2>1 DEF Authorizes, Inv, TypeOK
  <2>4. challenge'[x].state = "accepted"
    <3> DEFINE old == challenge[x]
    <3>1. old \in ChallengeRow /\ challenge'[x] = [old EXCEPT !.state = "accepted"]
      BY <2>1 DEF Inv, TypeOK
    <3> HIDE DEF old
    <3> QED BY <3>1 DEF ChallengeRow
  <2> QED BY <2>1, <2>2, <2>3, <2>4, AuthorizedHasAuthority DEF Checked
<1>4. CASE SubmitTooLate(x) \/ SubmitRejected(x) \/ SubmitWrong(x)
  BY <1>1, <1>2, <1>4 DEF SubmitTooLate, SubmitRejected, SubmitWrong, Resolve
<1>5. CASE AcceptRefused(x) \/ RecoverCode(x)
  BY <1>1, <1>2, <1>5 DEF AcceptRefused, RecoverCode, Resolve, outcomes
<1>6. CASE ClaimCode(x) \/ AcceptCode(x) \/ LapseCode(x) \/ DeliverCode(x)
  BY <1>1, <1>6 DEF ClaimCode, AcceptCode, LapseCode, DeliverCode, outcomes
<1> QED BY <1>3, <1>4, <1>5, <1>6 DEF Submit, Work

(* No Command is authorized once its renewal is closed, or its grant, its  *)
(* role, membership or identifier is gone, whatever held when its          *)
(* transaction read the pending Challenges or its code was sent.           *)
THEOREM AuthorityIsChecked == Spec => AuthorityIsRevalidated
<1>1. ASSUME Inv, [Next]_vars, NEW c \in Commands, Authorizes(c)
      PROVE  Checked(c)
  <2>1. command' # command
    BY <1>1 DEF Authorizes
  <2>2. CASE \E t \in Clients : Transact(t)
    BY <1>1, <2>2, TransactChecks
  <2>3. CASE \E x \in Commands : Submit(x) \/ Work(x)
    BY <1>1, <2>3, AnswerChecks
  <2>4. CASE Elsewhere
    BY <2>1, <2>4 DEF Elsewhere, ExpireChallenge, ExpireSession, RevokeRenewal, CloseRenewal,
                      outcomes
  <2>5. CASE UNCHANGED vars
    BY <2>1, <2>5 DEF vars, outcomes
  <2> QED BY <1>1, <2>2, <2>3, <2>4, <2>5 DEF Next
<1>2. Inv /\ [Next]_vars => \A c \in Commands : Authorizes(c) => Checked(c)
  BY <1>1
<1> QED BY <1>2, InvAlways, PTL DEF Spec, AuthorityIsRevalidated, Authorizes, Checked

-----------------------------------------------------------------------------
(* The codes that outlive their identifier (ReplacedIdentifiers).          *)

(* Whoever may end the identifier has read every Challenge of its renewal  *)
(* that is pending, or it was started since; a code that is out was sent   *)
(* to the current identifier or was overlooked; and what was overlooked    *)
(* names an identifier that will never be current again.                   *)
HistoryInv ==
  /\ \A t \in Clients : \A c \in Commands :
       Replaces(t) /\ Pending(c) /\ challenge[c].workflow = client[t].workflow =>
         c \in client[t].pending \/ c \in unread[t]
  /\ \A c \in Commands : Pending(c) /\ Sent(c) => IsCurrent(c) \/ c \in overlooked
  /\ \A c \in Commands : challenge[c].identifier <= identifier.number
  /\ \A c \in Commands : c \in overlooked => challenge[c].state # "absent" /\ ~IsCurrent(c)

Accepts(c) == challenge'[c].state = "accepted" /\ challenge[c].state # "accepted"

Proves == \A c \in Commands : Accepts(c) => IsCurrent(c) \/ c \in overlooked

(* No Challenge starts, none changes its identifier, and only an answer is *)
(* accepted.                                                               *)
KeptAt(c) ==
  /\ challenge'[c].state = "pending" => challenge[c].state = "pending"
  /\ challenge'[c].workflow = challenge[c].workflow
  /\ challenge'[c].identifier = challenge[c].identifier
  /\ challenge'[c].state = "absent" <=> challenge[c].state = "absent"
  /\ challenge'[c].state = "accepted" => challenge[c].state = "accepted" \/ Answerable(c)

Kept == \A c \in Commands : KeptAt(c)

CodesKept ==
  \A c \in Commands :
    carrier'[c].code \in {"pending", "delivered"} => Sent(c) \/ IsCurrent(c)

(* Transactions end; the list of one that goes on is kept.                 *)
ClientsEnd ==
  \A t \in Clients : Replaces(t)' =>
    /\ Replaces(t)
    /\ client'[t].pending = client[t].pending /\ client'[t].workflow = client[t].workflow

LEMMA ResolveKept ==
  ASSUME Inv, NEW ending, Ending(ending), challenge' = Challenges(ending)
  PROVE  Kept
<1> SUFFICES ASSUME NEW c \in Commands PROVE KeptAt(c)
  BY DEF Kept
<1>1. CASE challenge'[c] = challenge[c]
  BY <1>1 DEF KeptAt
<1>2. CASE /\ challenge[c].state = "pending"
           /\ challenge'[c] = [challenge[c] EXCEPT !.state = TerminalState(ending[c])]
  <2> DEFINE old == challenge[c]
  <2>1. old \in ChallengeRow /\ TerminalState(ending[c]) \in Terminal
    BY TerminalStates DEF Inv, TypeOK
  <2>2. challenge'[c] = [old EXCEPT !.state = TerminalState(ending[c])] /\ old.state = "pending"
    BY <1>2
  <2> HIDE DEF old
  <2>3. /\ challenge'[c].state \in Terminal
        /\ challenge'[c].workflow = old.workflow /\ challenge'[c].identifier = old.identifier
    BY <2>1, <2>2 DEF ChallengeRow
  <2> QED BY <2>2, <2>3 DEF KeptAt, Terminal, old
<1> QED BY <1>1, <1>2 DEF Challenges

LEMMA UnchangedKept == UNCHANGED challenge => Kept
BY DEF Kept, KeptAt

LEMMA EndEnds ==
  ASSUME Inv, NEW t \in Clients, End(t)
  PROVE  ClientsEnd /\ ~Replaces(t)'
BY DEF Inv, TypeOK, End, Idle, ClientsEnd, Replaces

(* While the identifier is kept and no Challenge starts, nothing is new.   *)
LEMMA KeptHistory ==
  ASSUME HistoryInv, Kept, CodesKept, ClientsEnd, UNCHANGED identifier, Observed
  PROVE  HistoryInv' /\ Proves
<1>1. /\ overlooked' = overlooked
      /\ \A t \in Clients : Replaces(t)' => unread'[t] = unread[t] \cup Started
  BY DEF Observed, ClientsEnd
<1>2. \A c \in Commands : IsCurrent(c)' <=> IsCurrent(c)
  BY DEF IsCurrent, Kept, KeptAt
<1>3. Proves
  BY DEF Proves, Accepts, Kept, KeptAt, Answerable, HistoryInv, Sent
<1>4. \A t \in Clients : \A c \in Commands :
        Replaces(t)' /\ Pending(c)' /\ challenge'[c].workflow = client'[t].workflow =>
          c \in client'[t].pending \/ c \in unread'[t]
  BY <1>1 DEF HistoryInv, Kept, KeptAt, ClientsEnd, Pending
<1>5. \A c \in Commands : Pending(c)' /\ Sent(c)' => IsCurrent(c)' \/ c \in overlooked'
  BY <1>1, <1>2 DEF HistoryInv, Kept, KeptAt, CodesKept, Pending, Sent
<1>6. /\ \A c \in Commands : challenge'[c].identifier <= identifier'.number
      /\ \A c \in Commands : c \in overlooked' => challenge'[c].state # "absent" /\ ~IsCurrent(c)'
  BY <1>1, <1>2 DEF HistoryInv, Kept, KeptAt
<1> QED BY <1>3, <1>4, <1>5, <1>6 DEF HistoryInv

LEMMA BeginHistory ==
  ASSUME Inv, HistoryInv, NEW t \in Clients, NEW kind, NEW w \in Workflows, NEW about,
         Begin(t, kind, w, about), Observed
  PROVE  HistoryInv' /\ Proves
<1>1. UNCHANGED <<identifier, challenge, carrier>>
  BY DEF Begin, authority, outcomes
<1>2. /\ client'[t].pending = PendingOf(w) /\ client'[t].workflow = w
      /\ \A u \in Clients : u # t => client'[u] = client[u]
  BY DEF Begin, Inv, TypeOK
<1>3. /\ overlooked' = overlooked
      /\ \A u \in Clients : Replaces(u)' /\ Replaces(u) => unread'[u] = unread[u] \cup Started
  BY <1>1 DEF Observed
<1>4. \A u \in Clients : \A c \in Commands :
        Replaces(u)' /\ Pending(c)' /\ challenge'[c].workflow = client'[u].workflow =>
          c \in client'[u].pending \/ c \in unread'[u]
  <2> SUFFICES ASSUME NEW u \in Clients, NEW c \in Commands,
                      Replaces(u)', Pending(c)', challenge'[c].workflow = client'[u].workflow
               PROVE  c \in client'[u].pending \/ c \in unread'[u]
    OBVIOUS
  <2>1. Pending(c) /\ challenge[c] = challenge'[c]
    BY <1>1 DEF Pending
  <2>2. CASE u = t
    BY <1>2, <2>1, <2>2 DEF PendingOf, Pending
  <2>3. CASE u # t
    <3>1. Replaces(u) /\ client'[u] = client[u]
      BY <1>2, <2>3 DEF Replaces
    <3> QED BY <1>3, <2>1, <3>1 DEF HistoryInv
  <2> QED BY <2>2, <2>3
<1>5. Proves
  BY <1>1 DEF Proves, Accepts
<1> QED BY <1>1, <1>3, <1>4, <1>5 DEF HistoryInv, IsCurrent, Pending, Sent

(* The new Challenge names the identifier that is current, no code of it   *)
(* is out, and whoever is about to replace the identifier has not read it. *)
LEMMA ChallengeRequestHistory ==
  ASSUME Inv, HistoryInv, NEW t \in Clients, ChallengeRequest(t), Observed
  PROVE  HistoryInv' /\ Proves
<1> DEFINE ending == Reconciled(client[t].pending)
           about == client[t].about
           new == [NoChallenge EXCEPT !.state = "pending", !.workflow = client[t].workflow,
                                      !.identifier = identifier.number]
           sent == [NoCarrier EXCEPT !.lifecycle = "active"]
<1>1. /\ challenge' = [Challenges(ending) EXCEPT ![about] = new]
      /\ carrier' = [carrier EXCEPT ![about] = sent]
      /\ about \in Commands /\ command[about].state = "absent"
      /\ identifier.current /\ End(t) /\ UNCHANGED identifier
  BY DEF ChallengeRequest, Authorize, authority, Inv, ClientInv
<1>2. Ending(ending)
  BY ReconciledEnds
<1>3. /\ new.state = "pending" /\ new.identifier = identifier.number
      /\ sent.code = "none"
  BY DEF NoChallenge, NoCarrier
<1>4. challenge[about].state = "absent" /\ about \notin overlooked
  BY <1>1 DEF Inv, RowsInv, Agree, HistoryInv
<1> HIDE DEF ending, about, new, sent
<1>5. /\ Challenges(ending) \in [Commands -> ChallengeRow]
      /\ \A c \in Commands :
           /\ Challenges(ending)[c].state = "absent" <=> challenge[c].state = "absent"
           /\ Challenges(ending)[c].state = "accepted" <=> challenge[c].state = "accepted"
           /\ Challenges(ending)[c].state = "pending" => Challenges(ending)[c] = challenge[c]
  BY <1>2, EndingAgrees DEF Inv, TypeOK
<1>6. \A c \in Commands : Challenges(ending)[c].identifier = challenge[c].identifier
  <2> SUFFICES ASSUME NEW c \in Commands
               PROVE  Challenges(ending)[c].identifier = challenge[c].identifier
    OBVIOUS
  <2> DEFINE old == challenge[c]
  <2>1. old \in ChallengeRow
    BY DEF Inv, TypeOK
  <2>2. Challenges(ending)[c] = old
          \/ Challenges(ending)[c] = [old EXCEPT !.state = TerminalState(ending[c])]
    BY DEF Challenges
  <2> HIDE DEF old
  <2>3. Challenges(ending)[c].identifier = old.identifier
    BY <2>1, <2>2 DEF ChallengeRow
  <2> QED BY <2>3 DEF old
<1>7. /\ challenge'[about] = new /\ carrier'[about] = sent
      /\ \A c \in Commands : c # about =>
           challenge'[c] = Challenges(ending)[c] /\ carrier'[c] = carrier[c]
  BY <1>1, <1>5 DEF Inv, TypeOK
<1>8. Started = {about}
  BY <1>1, <1>3, <1>4, <1>5, <1>7 DEF Started
<1>9. /\ overlooked' = overlooked /\ ClientsEnd
      /\ \A u \in Clients : Replaces(u)' => unread'[u] = unread[u] \cup {about}
  BY <1>1, <1>8, EndEnds DEF Observed, ClientsEnd
<1>10. ASSUME NEW u \in Clients, NEW c \in Commands,
              Replaces(u)', Pending(c)', challenge'[c].workflow = client'[u].workflow
       PROVE  c \in client'[u].pending \/ c \in unread'[u]
  <2>1. CASE c = about
    BY <1>9, <1>10, <2>1
  <2>2. CASE c # about
    <3>1. Pending(c) /\ challenge'[c] = challenge[c]
      BY <1>5, <1>7, <1>10, <2>2 DEF Pending
    <3>2. Replaces(u) /\ client'[u].workflow = client[u].workflow
            /\ client'[u].pending = client[u].pending
      BY <1>9, <1>10 DEF ClientsEnd
    <3> QED BY <1>9, <1>10, <3>1, <3>2 DEF HistoryInv
  <2> QED BY <2>1, <2>2
<1>11. ASSUME NEW c \in Commands, Pending(c)', Sent(c)'
       PROVE  IsCurrent(c)' \/ c \in overlooked'
  <2>1. c # about
    BY <1>3, <1>7, <1>11 DEF Sent
  <2>2. Pending(c) /\ challenge'[c] = challenge[c] /\ Sent(c)
    BY <1>5, <1>7, <1>11, <2>1 DEF Pending, Sent
  <2> QED BY <1>1, <1>9, <2>2 DEF HistoryInv, IsCurrent
<1>12. ASSUME NEW c \in Commands
       PROVE  /\ challenge'[c].identifier <= identifier'.number
              /\ c \in overlooked' => challenge'[c].state # "absent" /\ ~IsCurrent(c)'
  <2>1. CASE c = about
    BY <1>1, <1>3, <1>4, <1>7, <1>9, <2>1 DEF Inv, TypeOK, Numbered
  <2>2. CASE c # about
    BY <1>1, <1>5, <1>6, <1>7, <1>9, <2>2 DEF HistoryInv, IsCurrent
  <2> QED BY <2>1, <2>2
<1>13. \A c \in Commands : ~Accepts(c)
  BY <1>3, <1>5, <1>7 DEF Accepts
<1> QED BY <1>10, <1>11, <1>12, <1>13 DEF HistoryInv, Proves

(* Whoever ends the identifier ends the Challenges it has read; what it    *)
(* could not read is overlooked, and never current again.                  *)
LEMMA EndedIdentifier ==
  ASSUME Inv, HistoryInv, NEW t \in Clients, Replaces(t), End(t), Kept, Observed,
         UNCHANGED carrier, identifier' # identifier,
         ~identifier'.current \/ identifier'.number = identifier.number + 1,
         identifier'.number \in {identifier.number, identifier.number + 1},
         \A c \in client[t].pending \cap Commands : challenge'[c].state # "pending"
  PROVE  HistoryInv' /\ Proves
<1>1. ClientsEnd /\ ~Replaces(t)'
  BY EndEnds
<1>2. /\ Overlooks(t) \subseteq overlooked' /\ overlooked \subseteq overlooked'
      /\ \A c \in overlooked' : c \in overlooked \/ Pending(c)
  BY <1>1 DEF Observed, Ended, Overlooks
<1>3. \A u \in Clients : Replaces(u)' => unread'[u] = unread[u] \cup Started
  BY <1>1 DEF Observed, ClientsEnd
<1>4. \A c \in Commands :
        challenge'[c].identifier = challenge[c].identifier
          /\ challenge[c].identifier \in Nat /\ challenge[c].identifier <= identifier.number
  BY DEF Kept, KeptAt, HistoryInv, Inv, TypeOK, ChallengeRow
<1>5. \A c \in Commands : ~IsCurrent(c)' /\ challenge'[c].identifier <= identifier'.number
  BY <1>4 DEF IsCurrent, Inv, TypeOK, Numbered
<1>6. \A c \in Commands : Pending(c)' /\ Sent(c)' => c \in overlooked'
  <2> SUFFICES ASSUME NEW c \in Commands, Pending(c)', Sent(c)', c \notin overlooked'
               PROVE  FALSE
    OBVIOUS
  <2>1. Pending(c) /\ Sent(c)
    BY DEF Pending, Sent, Kept, KeptAt
  <2>2. c \notin unread[t] /\ challenge[c].workflow = client[t].workflow
    BY <1>2, <2>1 DEF Overlooks
  <2>3. c \in client[t].pending
    BY <2>1, <2>2 DEF HistoryInv
  <2> QED BY <2>3 DEF Pending
<1>7. \A u \in Clients : \A c \in Commands :
        Replaces(u)' /\ Pending(c)' /\ challenge'[c].workflow = client'[u].workflow =>
          c \in client'[u].pending \/ c \in unread'[u]
  BY <1>1, <1>3 DEF HistoryInv, Kept, KeptAt, ClientsEnd, Pending
<1>8. \A c \in Commands : c \in overlooked' => challenge'[c].state # "absent"
  BY <1>2 DEF HistoryInv, Kept, KeptAt, Pending
<1>9. Proves
  BY DEF Proves, Accepts, Kept, KeptAt, Answerable, HistoryInv, Sent
<1> QED BY <1>5, <1>6, <1>7, <1>8, <1>9 DEF HistoryInv

LEMMA RevokeHistory ==
  ASSUME Inv, HistoryInv, NEW t \in Clients, Revoke(t), Observed
  PROVE  HistoryInv' /\ Proves
<1> DEFINE resolution ==
             IF client[t].about = "identifier" THEN "identifier_revoked" ELSE "authority_revoked"
           ending == All(client[t].pending, resolution)
<1>1. /\ Resolve(ending) /\ End(t) /\ UNCHANGED carrier
      /\ client[t].kind = "revoke" /\ client[t].about \in Target
      /\ Revoked(client[t].about, client[t].workflow)
  BY DEF Revoke, Inv, ClientInv
<1>2. resolution \in Resolution /\ resolution # "none"
  BY DEF Resolution
<1> HIDE DEF resolution
<1>3. Ending(ending)
  BY <1>2, AllEnds
<1>4. Kept
  BY <1>1, <1>3, ResolveKept DEF Resolve
<1>5. \A c \in client[t].pending \cap Commands : challenge'[c].state # "pending"
  <2> SUFFICES ASSUME NEW c \in client[t].pending \cap Commands, challenge'[c].state = "pending"
               PROVE  FALSE
    OBVIOUS
  <2>1. challenge[c].state = "pending" /\ c \in DOMAIN ending /\ ending[c] = resolution
    BY <1>4 DEF Kept, KeptAt, All
  <2>2. challenge'[c] = [challenge[c] EXCEPT !.state = TerminalState(resolution)]
    BY <1>1, <1>2, <2>1 DEF Resolve, Challenges
  <2>3. challenge'[c].state = TerminalState(resolution)
    BY <2>2 DEF Inv, TypeOK, ChallengeRow
  <2> QED BY <2>3, TerminalStates DEF Terminal
<1>6. CASE identifier' = identifier
  BY <1>1, <1>4, <1>6, EndEnds, KeptHistory DEF CodesKept, Sent
<1>7. CASE identifier' # identifier
  <2>1. client[t].about = "identifier" /\ identifier' = [identifier EXCEPT !.current = FALSE]
    BY <1>1, <1>7 DEF Revoked, Target
  <2>2. ~identifier'.current /\ identifier'.number = identifier.number
    BY <2>1 DEF Inv, TypeOK, Numbered
  <2> QED BY <1>1, <1>4, <1>5, <1>7, <2>1, <2>2, EndedIdentifier DEF Replaces
<1> QED BY <1>6, <1>7

LEMMA ProvisionHistory ==
  ASSUME Inv, HistoryInv, NEW t \in Clients, NEW replace \in BOOLEAN, Provision(t, replace),
         Observed
  PROVE  HistoryInv' /\ Proves
<1> DEFINE number == Provisioned(replace).number
           set == {c \in client[t].pending : challenge[c].identifier # number}
           ending == All(set, "identifier_revoked")
<1>1. /\ Resolve(ending) /\ End(t) /\ UNCHANGED carrier
      /\ client[t].kind = "provision" /\ identifier' = Provisioned(replace)
  BY DEF Provision, Superseded
<1>2. Ending(ending)
  BY AllEnds DEF Resolution
<1>3. Kept
  BY <1>1, <1>2, ResolveKept DEF Resolve
<1>4. CASE identifier' = identifier
  BY <1>1, <1>3, <1>4, EndEnds, KeptHistory DEF CodesKept, Sent
<1>5. CASE identifier' # identifier
  <2>1. identifier' = [number |-> identifier.number + 1, current |-> TRUE]
    BY <1>1, <1>5 DEF Provisioned
  <2>2. number = identifier.number + 1 /\ identifier'.number = identifier.number + 1
    BY <1>1, <2>1
  <2>3. \A c \in client[t].pending \cap Commands : challenge'[c].state # "pending"
    <3> SUFFICES ASSUME NEW c \in client[t].pending \cap Commands, challenge'[c].state = "pending"
                 PROVE  FALSE
      OBVIOUS
    <3>1. challenge[c].identifier # number
      BY <2>2 DEF HistoryInv, Inv, TypeOK, ChallengeRow, Numbered
    <3>2. challenge[c].state = "pending" /\ c \in DOMAIN ending /\ ending[c] = "identifier_revoked"
      BY <1>3, <3>1 DEF Kept, KeptAt, All
    <3>3. challenge'[c] = [challenge[c] EXCEPT !.state = TerminalState("identifier_revoked")]
      BY <1>1, <3>2 DEF Resolve, Challenges
    <3>4. challenge'[c].state = TerminalState("identifier_revoked")
      BY <3>3 DEF Inv, TypeOK, ChallengeRow
    <3> QED BY <3>4, TerminalStates DEF Terminal
  <2>4. Replaces(t)
    BY <1>1 DEF Replaces
  <2>5. /\ ~identifier'.current \/ identifier'.number = identifier.number + 1
        /\ identifier'.number \in {identifier.number, identifier.number + 1}
    BY <2>2
  <2> QED BY <1>1, <1>3, <1>5, <2>3, <2>4, <2>5, EndedIdentifier
<1> QED BY <1>4, <1>5

LEMMA TransactHistory ==
  ASSUME Inv, HistoryInv, NEW t \in Clients, Transact(t), Observed
  PROVE  HistoryInv' /\ Proves
<1>1. CASE \E w \in Workflows, c \in Commands : BeginRequest(t, w, c)
  <2>1. PICK w \in Workflows, c \in Commands : BeginRequest(t, w, c)
    BY <1>1
  <2> QED BY <2>1, BeginHistory DEF BeginRequest
<1>2. CASE \E w \in Workflows, o \in Organizations : BeginProvision(t, w, o)
  BY <1>2, BeginHistory DEF BeginProvision
<1>3. CASE \E w \in Workflows, target \in Target : BeginRevoke(t, w, target)
  BY <1>3, BeginHistory DEF BeginRevoke
<1>4. CASE RefuseRequest(t)
  <2> DEFINE verdict == Authorize(client[t].workflow)
             ending == All(IF verdict = "approval_required" THEN {} ELSE client[t].pending, verdict)
  <2>1. /\ challenge' = Challenges(ending) /\ End(t) /\ UNCHANGED <<identifier, carrier>>
        /\ verdict # "authorized"
    BY <1>4 DEF RefuseRequest, Resolve, authority
  <2>2. verdict \in Resolution
    BY <2>1, AuthorizeResolves
  <2>3. Ending(ending)
    BY <2>2, AllEnds
  <2> HIDE DEF ending, verdict
  <2> QED BY <2>1, <2>3, ResolveKept, EndEnds, KeptHistory DEF CodesKept, Sent
<1>5. CASE AuthorizeRequest(t)
  <2> DEFINE ending == Reconciled(client[t].pending)
  <2>1. challenge' = Challenges(ending) /\ End(t) /\ UNCHANGED <<identifier, carrier>>
    BY <1>5 DEF AuthorizeRequest, authority
  <2>2. Ending(ending)
    BY ReconciledEnds
  <2> HIDE DEF ending
  <2> QED BY <2>1, <2>2, ResolveKept, EndEnds, KeptHistory DEF CodesKept, Sent
<1>6. CASE ChallengeRequest(t)
  BY <1>6, ChallengeRequestHistory
<1>7. CASE Revoke(t) \/ (\E replace \in BOOLEAN : Provision(t, replace))
  BY <1>7, RevokeHistory, ProvisionHistory
<1>8. CASE AbortProvision(t)
  <2>1. UNCHANGED <<identifier, challenge, carrier>> /\ End(t)
    BY <1>8 DEF AbortProvision, authority, outcomes
  <2> QED BY <2>1, UnchangedKept, EndEnds, KeptHistory DEF CodesKept, Sent
<1> QED BY <1>1, <1>2, <1>3, <1>4, <1>5, <1>6, <1>7, <1>8 DEF Transact

(* The rest leaves clients and identifiers alone.                          *)
LEMMA RestHistory ==
  ASSUME HistoryInv, Kept, CodesKept, Observed, UNCHANGED <<client, authority>>
  PROVE  HistoryInv' /\ Proves
<1>1. ClientsEnd /\ UNCHANGED identifier
  BY DEF ClientsEnd, Replaces, authority
<1> QED BY <1>1, KeptHistory

LEMMA SubmitHistory ==
  ASSUME Inv, HistoryInv, NEW x \in Commands, Submit(x), Observed
  PROVE  HistoryInv' /\ Proves
<1>1. UNCHANGED <<client, authority>> /\ CodesKept
  BY DEF Submit, SubmitTooLate, SubmitWrong, SubmitRejected, SubmitAccepted, CodesKept, Sent
<1>2. challenge \in [Commands -> ChallengeRow]
  BY DEF Inv, TypeOK
<1>3. CASE SubmitTooLate(x)
  BY <1>1, <1>3, ReconciledEnds, ResolveKept, RestHistory DEF SubmitTooLate, Resolve
<1>4. CASE SubmitRejected(x)
  BY <1>1, <1>4, AuthorizeResolves, AllEnds, ResolveKept, RestHistory DEF SubmitRejected, Resolve
<1>5. CASE SubmitWrong(x)
  <2> DEFINE old == challenge[x]
  <2>1. PICK after : after = FailedCode(old)
    OBVIOUS
  <2>2. /\ challenge' = [challenge EXCEPT ![x] = after]
        /\ old.state = "pending" /\ old \in ChallengeRow
    BY <1>2, <1>5, <2>1 DEF SubmitWrong, Answerable, Pending
  <2> HIDE DEF old
  <2>3. /\ after.identifier = old.identifier /\ after.workflow = old.workflow
        /\ after.state \in {"pending", "attempts_exhausted"}
    BY <2>1, <2>2 DEF FailedCode, ChallengeRow
  <2>4. \A c \in Commands : challenge'[c] = IF c = x THEN after ELSE challenge[c]
    BY <1>2, <2>2
  <2>5. Kept
    BY <2>2, <2>3, <2>4 DEF Kept, KeptAt, old
  <2> QED BY <1>1, <2>5, RestHistory
<1>6. CASE SubmitAccepted(x)
  <2> DEFINE old == challenge[x]
  <2>1. PICK after : after = [old EXCEPT !.state = "accepted"]
    OBVIOUS
  <2>2. /\ challenge' = [challenge EXCEPT ![x] = after] /\ old \in ChallengeRow
        /\ old.state = "pending" /\ Answerable(x)
    BY <1>2, <1>6, <2>1 DEF SubmitAccepted, Answerable, Pending
  <2> HIDE DEF old
  <2>3. after.state = "accepted" /\ after.identifier = old.identifier /\ after.workflow = old.workflow
    BY <2>1, <2>2 DEF ChallengeRow
  <2>4. \A c \in Commands : challenge'[c] = IF c = x THEN after ELSE challenge[c]
    BY <1>2, <2>2
  <2>5. Kept
    BY <2>2, <2>3, <2>4 DEF Kept, KeptAt, old
  <2> QED BY <1>1, <2>5, RestHistory
<1> QED BY <1>3, <1>4, <1>5, <1>6 DEF Submit

(* A code is sent to the identifier that is current, or not at all.        *)
LEMMA WorkHistory ==
  ASSUME Inv, HistoryInv, NEW x \in Commands, Work(x), Observed
  PROVE  HistoryInv' /\ Proves
<1>1. UNCHANGED <<client, authority>>
  BY DEF Work, ClaimCode, AcceptRefused, AcceptCode, LapseCode, RecoverCode, DeliverCode
<1>2. carrier \in [Commands -> CarrierRow]
  BY DEF Inv, TypeOK
<1>3. CodesKept
  <2> DEFINE old == carrier[x]
  <2>1. old \in CarrierRow
    BY <1>2
  <2>2. PICK after : carrier' = [carrier EXCEPT ![x] = after] /\
          \/ after.code = old.code
          \/ old.code = "pending"
          \/ IsCurrent(x)
    <3>1. CASE ClaimCode(x)
      <4>1. carrier' = [carrier EXCEPT ![x] = [old EXCEPT !.number = @ + 1, !.lease = "live"]]
        BY <1>2, <3>1 DEF ClaimCode
      <4> HIDE DEF old
      <4>2. [old EXCEPT !.number = @ + 1, !.lease = "live"].code = old.code
        BY <2>1 DEF CarrierRow
      <4> QED BY <4>1, <4>2
    <3>2. CASE AcceptCode(x)
      <4>1. /\ carrier' = [carrier EXCEPT ![x] = [Finished(x, "completed") EXCEPT !.code = "pending"]]
            /\ Unsuitable(x) = "none"
        BY <3>2 DEF AcceptCode
      <4>2. PICK new : new = [Finished(x, "completed") EXCEPT !.code = "pending"]
        OBVIOUS
      <4>3. Finished(x, "completed") = [old EXCEPT !.lifecycle = "completed", !.lease = "none"]
        BY DEF Finished
      <4>4. identifier = [number |-> challenge[x].identifier, current |-> TRUE]
        BY <4>1 DEF Unsuitable
      <4>5. IsCurrent(x)
        BY <4>4 DEF IsCurrent
      <4>6. carrier' = [carrier EXCEPT ![x] = new]
        BY <4>1, <4>2
      <4> QED BY <4>5, <4>6
    <3>3. CASE LapseCode(x)
      <4>1. carrier' = [carrier EXCEPT ![x] = [old EXCEPT !.lease = "lapsed"]]
        BY <1>2, <3>3 DEF LapseCode
      <4> HIDE DEF old
      <4>2. [old EXCEPT !.lease = "lapsed"].code = old.code
        BY <2>1 DEF CarrierRow
      <4> QED BY <4>1, <4>2
    <3>4. CASE DeliverCode(x)
      <4>1. PICK status \in {"delivered", "failed"} : carrier' = [carrier EXCEPT ![x].code = status]
        BY <3>4 DEF DeliverCode
      <4>2. carrier' = [carrier EXCEPT ![x] = [old EXCEPT !.code = status]] /\ old.code = "pending"
        BY <1>2, <3>4, <4>1 DEF DeliverCode
      <4> QED BY <4>2
    <3>5. CASE carrier' = [carrier EXCEPT ![x] = Finished(x, "failed")]
      <4>1. Finished(x, "failed") = [old EXCEPT !.lifecycle = "failed", !.lease = "none"]
        BY DEF Finished
      <4> HIDE DEF old
      <4>2. [old EXCEPT !.lifecycle = "failed", !.lease = "none"].code = old.code
        BY <2>1 DEF CarrierRow
      <4> QED BY <3>5, <4>1, <4>2
    <3>6. CASE carrier' = [carrier EXCEPT ![x].lease = "none"]
      <4>1. carrier' = [carrier EXCEPT ![x] = [old EXCEPT !.lease = "none"]]
        BY <1>2, <3>6
      <4> HIDE DEF old
      <4>2. [old EXCEPT !.lease = "none"].code = old.code
        BY <2>1 DEF CarrierRow
      <4> QED BY <4>1, <4>2
    <3> QED BY <3>1, <3>2, <3>3, <3>4, <3>5, <3>6 DEF Work, AcceptRefused, RecoverCode
  <2>3. \A c \in Commands : carrier'[c] = IF c = x THEN after ELSE carrier[c]
    BY <1>2, <2>2
  <2> QED BY <2>2, <2>3 DEF CodesKept, Sent
<1>4. CASE UNCHANGED outcomes
  BY <1>1, <1>3, <1>4, UnchangedKept, RestHistory DEF outcomes
<1>5. CASE AcceptRefused(x)
  <2> DEFINE resolution == IF Pending(x) THEN Unsuitable(x) ELSE "none"
  <2>1. resolution \in Resolution \cup {"none"}
    BY DEF Unsuitable, Resolution
  <2>2. Resolve(All({x}, resolution))
    BY <1>5 DEF AcceptRefused
  <2> HIDE DEF resolution
  <2> QED BY <1>1, <1>3, <2>1, <2>2, AllEnds, ResolveKept, RestHistory DEF Resolve
<1>6. CASE Resolve(GivenUp(x))
  <2>1. Ending(GivenUp(x))
    BY AllEnds DEF GivenUp, Resolution
  <2> QED BY <1>1, <1>3, <1>6, <2>1, ResolveKept, RestHistory DEF Resolve
<1> QED BY <1>4, <1>5, <1>6 DEF Work, ClaimCode, AcceptCode, LapseCode, RecoverCode, DeliverCode

LEMMA ElsewhereHistory ==
  ASSUME Inv, HistoryInv, Elsewhere, Observed
  PROVE  HistoryInv' /\ Proves
<1>1. UNCHANGED <<client, authority>> /\ CodesKept
  BY DEF Elsewhere, ExpireChallenge, ExpireSession, RevokeRenewal, CloseRenewal, CodesKept, Sent
<1>2. CASE \E x \in Commands : ExpireChallenge(x)
  <2>1. PICK x \in Commands : ExpireChallenge(x)
    BY <1>2
  <2> DEFINE old == challenge[x]
  <2>2. PICK after : after = [old EXCEPT !.expired = TRUE]
    OBVIOUS
  <2>3. /\ challenge' = [challenge EXCEPT ![x] = after] /\ old \in ChallengeRow
        /\ challenge \in [Commands -> ChallengeRow]
    BY <2>1, <2>2 DEF ExpireChallenge, Inv, TypeOK
  <2> HIDE DEF old
  <2>4. /\ after.state = old.state /\ after.identifier = old.identifier
        /\ after.workflow = old.workflow
    BY <2>2, <2>3 DEF ChallengeRow
  <2>5. \A c \in Commands : challenge'[c] = IF c = x THEN after ELSE challenge[c]
    BY <2>3
  <2>6. Kept
    BY <2>4, <2>5 DEF Kept, KeptAt, old
  <2> QED BY <1>1, <2>6, RestHistory
<1>3. CASE UNCHANGED outcomes
  BY <1>1, <1>3, UnchangedKept, RestHistory DEF outcomes
<1> QED BY <1>2, <1>3 DEF Elsewhere, ExpireSession, RevokeRenewal, CloseRenewal

LEMMA HistoryStep ==
  ASSUME Inv, HistoryInv, [HistoryNext]_historyVars
  PROVE  HistoryInv' /\ Proves
<1>1. CASE HistoryNext
  <2>1. Next /\ Observed
    BY <1>1 DEF HistoryNext
  <2>2. CASE \E t \in Clients : Transact(t)
    BY <2>1, <2>2, TransactHistory
  <2>3. CASE \E c \in Commands : Submit(c) \/ Work(c)
    BY <2>1, <2>3, SubmitHistory, WorkHistory
  <2>4. CASE Elsewhere
    BY <2>1, <2>4, ElsewhereHistory
  <2> QED BY <2>1, <2>2, <2>3, <2>4 DEF Next
<1>2. CASE UNCHANGED historyVars
  <2>1. UNCHANGED <<client, identifier, challenge, carrier, unread, overlooked>>
    BY <1>2 DEF historyVars, vars, authority, outcomes
  <2>2. \A c \in Commands : ~Accepts(c)
    BY <2>1 DEF Accepts
  <2> QED BY <2>1, <2>2 DEF HistoryInv, Proves, Replaces, Pending, Sent, IsCurrent
<1> QED BY <1>1, <1>2

(* Without a code, a Command is authorized under a Session over the        *)
(* current identifier, which no overlooked code can have opened.           *)
LEMMA SessionsAreFresh ==
  ASSUME Inv, HistoryInv, [Next]_vars, NEW c \in Commands, Authorizes(c),
         challenge'[c].state # "accepted"
  PROVE  \E s \in Commands \ overlooked : session[s] = "live"
<1>1. command' # command
  BY DEF Authorizes
<1>2. ActiveSession
  <2>1. CASE \E t \in Clients : Transact(t)
    BY <2>1, TransactChecks
  <2>2. CASE \E x \in Commands : Submit(x) \/ Work(x)
    BY <2>2, AnswerChecks
  <2>3. CASE Elsewhere
    BY <1>1, <2>3 DEF Elsewhere, ExpireChallenge, ExpireSession, RevokeRenewal, CloseRenewal,
                      outcomes
  <2>4. CASE UNCHANGED vars
    BY <1>1, <2>4 DEF vars, outcomes
  <2> QED BY <2>1, <2>2, <2>3, <2>4 DEF Next
<1> QED BY <1>2 DEF ActiveSession, HistoryInv, IsCurrent

(* For any number of renewals, requests, and transactions that overlap: a  *)
(* code that is accepted was sent to the current identifier unless it was  *)
(* out when a transaction that could not have read its Challenge replaced  *)
(* that, and such a code authorizes no Command but its own.                *)
THEOREM StaleCodesProveNothingMore == HistorySpec => OnlyOverlookedCodesAreStale
<1> DEFINE Answers == \A c \in Commands : Authorizes(c) /\ challenge'[c].state # "accepted" =>
                        \E s \in Commands \ overlooked : session[s] = "live"
<1>1. HistorySpec => Spec
  <2>1. HistoryInit => Init
    BY DEF HistoryInit
  <2>2. [HistoryNext]_historyVars => [Next]_vars
    BY DEF HistoryNext, historyVars
  <2> QED BY <2>1, <2>2, PTL DEF HistorySpec, Spec
<1>2. HistoryInit => HistoryInv
  BY DEF HistoryInit, Init, HistoryInv, NoChallenge, Idle, Replaces, Pending
<1>3. Inv /\ HistoryInv /\ [HistoryNext]_historyVars => HistoryInv' /\ Proves
  BY HistoryStep
<1>4. Inv /\ HistoryInv /\ [HistoryNext]_historyVars => Answers
  <2>1. [HistoryNext]_historyVars => [Next]_vars
    BY DEF HistoryNext, historyVars
  <2> QED BY <2>1, SessionsAreFresh
<1>5. Proves /\ Answers <=>
        \A c \in Commands :
          /\ challenge'[c].state = "accepted" /\ challenge[c].state # "accepted" =>
               IsCurrent(c) \/ c \in overlooked
          /\ command'[c].state = "authorized" /\ command[c].state # "authorized"
               /\ challenge'[c].state # "accepted" =>
               \E s \in Commands \ overlooked : session[s] = "live"
  BY DEF Proves, Accepts, Authorizes
<1> HIDE DEF Answers
<1> QED BY <1>1, <1>2, <1>3, <1>4, <1>5, InvAlways, PTL
        DEF HistorySpec, OnlyOverlookedCodesAreStale
=============================================================================
