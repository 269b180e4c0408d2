-------------------------- MODULE DeskToolsProofs --------------------------
(***************************************************************************)
(* What DeskTools guarantees for any number of tabs, calls, pairings,      *)
(* offers and models.                                                      *)
(*                                                                         *)
(* No tool touches the state of another: a step of DeskTools is, for each  *)
(* tool, a step of its own or a stutter, and each invariant below is about *)
(* the variables of one tool alone.                                        *)
(***************************************************************************)
EXTENDS DeskTools, FiniteSums, SequenceTheorems, TLAPS

-----------------------------------------------------------------------------
(* The switch of the language model.                                       *)

Client == [provider : Provider, nr : Nat, for : {"main", "fast"} \cup Stage]

\* A client the process was started with.
FromBoot(k) == k.for \in {"main", "fast"}

SwitchTypes ==
    /\ env.provider \in Provider /\ env.fast \in Provider \cup {"none"}
    /\ runs \in [Stage -> Client] /\ choice \in [Stage -> Provider]
    /\ changes \in Nat /\ warming \in Seq(Client)

\* What is asked for after a change is asked of the model that was chosen.
AsksFit ==
    /\ \A ask \in digesting \cup ({digest} \ {NoDigest}) : ask.at \in 0 .. changes
    /\ \A ask \in digesting \cup ({digest} \ {NoDigest}) : ask.at = changes => ask.by = runs["context"]

\* A stage served from the boot was warmed, or is about to be.
WarmUpFits ==
    \A s \in Stage : FromBoot(runs[s]) /\ Hosts(runs[s]) =>
        runs[s] \in warm \/ \E i \in 1 .. Len(warming) : warming[i] = runs[s]

\* What the panel reports is kept beside the clients, and follows them.
PanelFits ==
    /\ \A s \in Stage : choice[s] = runs[s].provider
    /\ quick # NoClient => quick = runs["preview"]
    /\ \A s \in Stage : Hosts(runs[s]) /\ ~FromBoot(runs[s]) => runs[s].provider \in env.keys

SwitchFits == SwitchTypes /\ PanelFits /\ AsksFit /\ WarmUpFits

LEMMA BootFits ==
    ASSUME NEW e, e.provider \in Provider, e.fast \in Provider \cup {"none"}, NEW n \in Nat
    PROVE  /\ BootClients(e, n) \in [Stage -> Client]
           /\ BootWarms(e, n) \in Seq(Client)
           /\ Fast(e, n) # NoClient => Fast(e, n) = BootClients(e, n)["preview"]
           /\ \A s \in Stage : /\ FromBoot(BootClients(e, n)[s])
                               /\ Hosts(BootClients(e, n)[s]) =>
                                     \E i \in 1 .. Len(BootWarms(e, n)) :
                                         BootWarms(e, n)[i] = BootClients(e, n)[s]
  <1>1. e.provider \in Provider /\ (e.fast = "none" \/ e.fast \in Provider)
    OBVIOUS
  <1>2. Main(e, n) \in Client /\ Main(e, n).for = "main" /\ Main(e, n).provider = e.provider
    BY <1>1 DEF Main, Built, Client
  <1>3. e.fast # "none" => Fast(e, n) \in Client /\ Fast(e, n).for = "fast"
    BY <1>1 DEF Fast, Built, Client
  <1>4. BootClients(e, n) \in [Stage -> Client]
    BY <1>2, <1>3 DEF BootClients
  <1>5. \A s \in Stage : FromBoot(BootClients(e, n)[s])
    BY <1>2, <1>3 DEF BootClients, FromBoot
  <1>6. Fast(e, n) # NoClient => Fast(e, n) = BootClients(e, n)["preview"]
    BY DEF Fast, BootClients, Stage
  <1>7. BootWarms(e, n) \in Seq(Client)
    <2>1. BootClients(e, n)["preview"] \in Client
      BY <1>4 DEF Stage
    <2> QED BY <2>1, <1>2 DEF BootWarms
  <1>8. ASSUME NEW s \in Stage, Hosts(BootClients(e, n)[s])
        PROVE  \E i \in 1 .. Len(BootWarms(e, n)) : BootWarms(e, n)[i] = BootClients(e, n)[s]
    <2>1. CASE e.provider = "rulebased" /\ e.fast = "none"
      <3>1. BootClients(e, n)[s] = Main(e, n)
        BY <2>1 DEF BootClients
      <3> QED BY <1>8, <3>1, <1>2, <2>1, ModelSwitchAssumption DEF Hosts
    <2>2. CASE ~(e.provider = "rulebased" /\ e.fast = "none")
      <3>1. BootWarms(e, n) = <<BootClients(e, n)["preview"], Main(e, n)>>
        BY <2>2 DEF BootWarms
      <3>2. BootClients(e, n)[s] \in {BootClients(e, n)["preview"], Main(e, n)}
        BY DEF BootClients, Stage
      <3>3. /\ 1 \in 1 .. Len(BootWarms(e, n)) /\ 2 \in 1 .. Len(BootWarms(e, n))
            /\ BootWarms(e, n)[1] = BootClients(e, n)["preview"] /\ BootWarms(e, n)[2] = Main(e, n)
        BY <3>1
      <3> QED BY <3>2, <3>3
    <2> QED BY <2>1, <2>2
  <1> QED BY <1>4, <1>5, <1>6, <1>7, <1>8

\* What a boot leaves, at the first start or at a later one.
Booted(n) ==
    /\ env.provider \in Provider /\ env.fast \in Provider \cup {"none"} /\ changes = n
    /\ runs = BootClients(env, n) /\ quick = Fast(env, n)
    /\ choice = [s \in Stage |-> runs[s].provider]
    /\ warming = BootWarms(env, n)
    /\ digest = NoDigest /\ digesting = {}

LEMMA BootedFits == ASSUME NEW n \in Nat, Booted(n) PROVE SwitchFits
  <1>1. SwitchTypes
    <2>1. runs \in [Stage -> Client] /\ warming \in Seq(Client)
      BY BootFits DEF Booted
    <2>2. choice \in [Stage -> Provider]
      BY <2>1 DEF Booted, Client
    <2> QED BY <2>1, <2>2 DEF Booted, SwitchTypes
  <1>2. PanelFits
    BY BootFits DEF Booted, PanelFits
  <1>3. WarmUpFits
    BY BootFits DEF Booted, WarmUpFits
  <1>4. AsksFit
    BY DEF Booted, AsksFit
  <1> QED BY <1>1, <1>2, <1>3, <1>4 DEF SwitchFits

LEMMA SwitchFitsInit == Init => SwitchFits
  <1>1. ASSUME SwitchInit PROVE Booted(0)
    BY <1>1 DEF SwitchInit, Booted, Settings
  <1>2. ASSUME NoSwitch PROVE Booted(0)
    <2>1. env.provider = "rulebased" /\ env.fast = "none"
      BY <1>2 DEF NoSwitch
    <2>2. runs = BootClients(env, 0) /\ quick = Fast(env, 0) /\ warming = BootWarms(env, 0)
      BY <1>2, <2>1 DEF NoSwitch, Fast, BootWarms
    <2>3. \A s \in Stage : runs[s].provider = "rulebased"
      BY <2>1, <2>2 DEF BootClients, Main, Built
    <2> QED BY <1>2, <2>1, <2>2, <2>3 DEF NoSwitch, Booted, Provider
  <1> QED BY <1>1, <1>2, BootedFits DEF Init

LEMMA SwitchFitsStep == SwitchFits /\ [SwitchStep]_switchVars => SwitchFits'
  <1> SUFFICES ASSUME SwitchFits, [SwitchStep]_switchVars PROVE SwitchFits'
    OBVIOUS
  <1> USE DEF SwitchFits
  <1>1. CASE SwitchRestart
    <2>1. /\ changes' = changes + 1 /\ env' = env
          /\ runs' = BootClients(env, changes') /\ quick' = Fast(env, changes')
          /\ choice' = [s \in Stage |-> runs'[s].provider]
          /\ warming' = BootWarms(env, changes')
          /\ digest' = NoDigest /\ digesting' = {}
      BY <1>1 DEF SwitchRestart
    <2>2. changes' \in Nat /\ env.provider \in Provider /\ env.fast \in Provider \cup {"none"}
      BY <2>1 DEF SwitchTypes
    <2>3. /\ runs' \in [Stage -> Client] /\ warming' \in Seq(Client)
          /\ quick' # NoClient => quick' = runs'["preview"]
          /\ \A s \in Stage : /\ FromBoot(runs'[s])
                              /\ Hosts(runs'[s]) =>
                                    \E i \in 1 .. Len(warming') : warming'[i] = runs'[s]
      BY <2>1, <2>2, BootFits
    <2>4. SwitchTypes'
      BY <2>1, <2>2, <2>3 DEF SwitchTypes, Client
    <2>5. PanelFits' /\ WarmUpFits'
      BY <2>1, <2>3 DEF PanelFits, WarmUpFits, FromBoot, Hosts
    <2>6. AsksFit'
      BY <2>1 DEF AsksFit
    <2> QED BY <2>4, <2>5, <2>6
  <1>2. CASE BootWarm
    <2>1. /\ warming # <<>> /\ warm' = warm \cup {Head(warming)} /\ warming' = Tail(warming)
          /\ UNCHANGED <<env, runs, quick, choice, changes, digest, digesting>>
      BY <1>2 DEF BootWarm
    <2>2. warming \in Seq(Client)
      BY DEF SwitchTypes
    <2>3. SwitchTypes'
      BY <2>1, <2>2 DEF SwitchTypes
    <2>4. \A i \in 1 .. Len(warming) :
             warming[i] \in warm' \/ \E j \in 1 .. Len(warming') : warming'[j] = warming[i]
      <3> TAKE i \in 1 .. Len(warming)
      <3>1. CASE i = 1
        BY <3>1, <2>1, <2>2
      <3>2. CASE i # 1
        <4>1. i - 1 \in 1 .. Len(warming') /\ warming'[i - 1] = warming[i]
          BY <3>2, <2>1, <2>2
        <4> QED BY <4>1
      <3> QED BY <3>1, <3>2
    <2>5. WarmUpFits'
      <3> SUFFICES ASSUME NEW s \in Stage, FromBoot(runs[s]), Hosts(runs[s])
                   PROVE  runs[s] \in warm' \/ \E j \in 1 .. Len(warming') : warming'[j] = runs[s]
        BY <2>1 DEF WarmUpFits, FromBoot, Hosts
      <3> QED BY <2>1, <2>4 DEF WarmUpFits
    <2> QED BY <2>1, <2>3, <2>5 DEF PanelFits, AsksFit, FromBoot, Hosts
  <1>3. ASSUME NEW p \in Provider, NEW targets \in {Stage} \cup {{s} : s \in Stage}, SetLlm(p, targets)
        PROVE  SwitchFits'
    <2>1. /\ changes' = changes + 1 /\ Available(p) /\ digest' = NoDigest
          /\ runs' = [s \in Stage |-> IF s \in targets THEN Built(p, changes', s) ELSE runs[s]]
          /\ choice' = [s \in Stage |-> IF s \in targets THEN p ELSE choice[s]]
          /\ quick' = QuickFollows(p, targets, runs')
          /\ UNCHANGED <<env, warm, warming, digesting>>
      BY <1>3 DEF SetLlm
    <2>2. changes \in Nat /\ changes' \in Nat
      BY <2>1 DEF SwitchTypes
    <2>3. \A s \in Stage : Built(p, changes', s) \in Client
      BY <2>2 DEF Built, Client
    <2>4. runs' \in [Stage -> Client] /\ choice' \in [Stage -> Provider]
      BY <2>1, <2>3 DEF SwitchTypes
    <2>5. SwitchTypes'
      BY <2>1, <2>2, <2>4 DEF SwitchTypes
    <2>6. \A s \in Stage : s \in targets => /\ runs'[s].provider = p /\ choice'[s] = p
                                            /\ ~FromBoot(runs'[s])
      BY <2>1 DEF Built, FromBoot, Stage
    <2>7. \A s \in Stage : s \notin targets => runs'[s] = runs[s] /\ choice'[s] = choice[s]
      BY <2>1
    <2>8. \A s \in Stage : choice'[s] = runs'[s].provider
      BY <2>6, <2>7 DEF PanelFits
    <2>9. quick' # NoClient => quick' = runs'["preview"]
      BY <2>1, <2>7 DEF QuickFollows, PanelFits, Stage
    <2>10. \A s \in Stage : Hosts(runs'[s]) /\ ~FromBoot(runs'[s]) => runs'[s].provider \in env.keys
      BY <2>1, <2>6, <2>7, ModelSwitchAssumption DEF Hosts, Available, PanelFits
    <2>11. PanelFits'
      BY <2>1, <2>8, <2>9, <2>10 DEF PanelFits, Hosts, FromBoot
    <2>12. WarmUpFits'
      BY <2>1, <2>6, <2>7 DEF WarmUpFits, Hosts, FromBoot
    <2>13. AsksFit'
      <3>1. digesting' \cup ({digest'} \ {NoDigest}) = digesting
        BY <2>1
      <3>2. \A ask \in digesting : ask.at \in 0 .. changes
        BY DEF AsksFit
      <3>3. \A ask \in digesting : ask.at \in 0 .. changes' /\ ask.at # changes'
        BY <3>2, <2>1, <2>2
      <3> SUFFICES ASSUME NEW ask \in (digesting \cup ({digest} \ {NoDigest}))'
                   PROVE  ask.at \in 0 .. changes' /\ ask.at # changes'
        BY DEF AsksFit
      <3>4. ask \in digesting
        BY <3>1
      <3> QED BY <3>3, <3>4
    <2> QED BY <2>5, <2>11, <2>12, <2>13
  <1>4. CASE SwitchWarm
    <2>1. /\ warm \subseteq warm'
          /\ UNCHANGED <<env, runs, quick, choice, warming, changes, digest, digesting>>
      BY <1>4 DEF SwitchWarm
    <2> QED BY <2>1 DEF SwitchTypes, PanelFits, AsksFit, WarmUpFits, Hosts, FromBoot
  <1>5. CASE AskDigest
    <2>1. /\ digesting' = digesting \cup {[by |-> runs["context"], at |-> changes]}
          /\ UNCHANGED <<env, runs, quick, choice, warm, warming, changes, digest>>
      BY <1>5 DEF AskDigest
    <2>2. AsksFit'
      BY <2>1 DEF AsksFit, SwitchTypes
    <2> QED BY <2>1, <2>2 DEF SwitchTypes, PanelFits, WarmUpFits, Hosts, FromBoot
  <1>6. ASSUME NEW ask \in digesting, DigestEnds(ask) PROVE SwitchFits'
    <2>1. /\ digesting' \subseteq digesting /\ digest' \in {digest, ask}
          /\ UNCHANGED <<env, runs, quick, choice, warm, warming, changes>>
      BY <1>6 DEF DigestEnds
    <2>2. AsksFit'
      <3> SUFFICES ASSUME NEW that \in (digesting \cup ({digest} \ {NoDigest}))'
                   PROVE  that.at \in 0 .. changes /\ (that.at = changes => that.by = runs["context"])
        BY <2>1 DEF AsksFit
      <3>1. that \in digesting \cup ({digest} \ {NoDigest})
        BY <2>1
      <3> QED BY <3>1 DEF AsksFit
    <2> QED BY <2>1, <2>2 DEF SwitchTypes, PanelFits, WarmUpFits, Hosts, FromBoot
  <1>7. CASE UNCHANGED switchVars
    BY <1>7 DEF switchVars, SwitchTypes, PanelFits, AsksFit, WarmUpFits, Hosts, FromBoot
  <1> QED BY <1>1, <1>2, <1>3, <1>4, <1>5, <1>6, <1>7 DEF SwitchStep

LEMMA SwitchFitsAlways == Spec => []SwitchFits
  <1>1. [Next]_vars => [SwitchStep]_switchVars
    BY DEF Next, vars, switchVars
  <1> QED BY <1>1, SwitchFitsInit, SwitchFitsStep, PTL DEF Spec

LEMMA FitPanelIsHonest == SwitchFits => PanelIsHonest
  <1> SUFFICES ASSUME SwitchFits PROVE PanelIsHonest
    OBVIOUS
  <1> USE DEF SwitchFits
  <1>1. ASSUME NEW s \in Stage
        PROVE  /\ choice[s] = runs[s].provider
               /\ s # "preview" \/ quick # NoClient => Reported(s) = runs[s]
               /\ Hosts(runs[s]) /\ runs[s].for = s => runs[s].provider \in env.keys
    <2>1. s \notin {"main", "fast"}
      BY DEF Stage
    <2>2. Hosts(runs[s]) /\ runs[s].for = s => runs[s].provider \in env.keys
      BY <2>1 DEF PanelFits, FromBoot
    <2> QED BY <2>2 DEF PanelFits, Reported
  <1>2. Overall = "rulebased" <=> \A s \in Stage : ~Hosts(runs[s])
    <2>1. \A s \in Stage : choice[s] \in Provider /\ (Hosts(runs[s]) <=> choice[s] \in Hosted)
      BY DEF PanelFits, SwitchTypes, Hosts
    <2>2. \A s \in Stage : choice[s] = "rulebased" <=> ~Hosts(runs[s])
      BY <2>1, ModelSwitchAssumption DEF Provider
    <2>3. Overall = "rulebased" <=> \A s \in Stage : choice[s] = "rulebased"
      BY DEF Overall, Provider, Stage
    <2> QED BY <2>2, <2>3
  <1>3. \A ask \in digesting \cup ({digest} \ {NoDigest}) :
           ask.at = changes => ask.by = runs["context"] /\ ask.by.provider = choice["context"]
    BY DEF AsksFit, PanelFits, Stage
  <1>4. warming = <<>> =>
           \A s \in Stage : runs[s].for \in {"main", "fast"} /\ Hosts(runs[s]) => runs[s] \in warm
    BY DEF WarmUpFits, FromBoot
  <1> QED BY <1>1, <1>2, <1>3, <1>4 DEF PanelIsHonest

\* The settings panel does not lie, whichever and however many models there are
\* and however often they are switched (api/routers/agent.py, api/deps.py).
THEOREM PanelNeverLies == Spec => []PanelIsHonest
  BY SwitchFitsAlways, FitPanelIsHonest, PTL

-----------------------------------------------------------------------------
(* The customer's screen.                                                  *)

PairingRecord ==
    [state : {"unminted", "there", "swept"}, of : Calls \cup {0}, life : Nat,
     paired : BOOLEAN, items : SUBSET Nat, answered : SUBSET Nat]

ScreenTypes ==
    /\ call \in [Calls -> {"none", "waiting", "in_call", "over"}]
    /\ pairing \in [Pairings -> PairingRecord]
    /\ forCall \in [Calls -> Pairings \cup {NoPairing}] /\ pushed \in Nat

\* Pairings are minted in the order of their numbers.
MintedInOrder == \E n \in 0 .. MaxPairings : Minted = 1 .. n

\* A pairing that has not expired is the one its call has; the call of one that
\* outlives the grace goes on.
PairingsFit ==
    \A p \in Pairings : Unexpired(p) =>
        /\ pairing[p].of \in Calls /\ forCall[pairing[p].of] = p
        /\ call[pairing[p].of] = "over" => pairing[p].life <= Grace

ScreenFits == ScreenTypes /\ MintedInOrder /\ PairingsFit

LEMMA MintIsNew ==
    ASSUME ScreenFits, Cardinality(Minted) + 1 \in Pairings
    PROVE  /\ Cardinality(Minted) + 1 \notin Minted
           /\ Minted \cup {Cardinality(Minted) + 1} = 1 .. Cardinality(Minted) + 1
           /\ Cardinality(Minted) + 1 \in 0 .. MaxPairings
  <1>1. PICK n \in 0 .. MaxPairings : Minted = 1 .. n
    BY DEF ScreenFits, MintedInOrder
  <1>2. n \in Int /\ 1 \in Int
    OBVIOUS
  <1>3. Cardinality(1 .. n) = n
    BY <1>2, FS_Interval
  <1>4. Cardinality(Minted) = n
    BY <1>1, <1>3
  <1>5. n + 1 \notin Minted /\ Minted \cup {n + 1} = 1 .. n + 1
    BY <1>1
  <1>6. n + 1 \in 0 .. MaxPairings
    BY <1>4 DEF Pairings
  <1> QED BY <1>4, <1>5, <1>6

\* A call without a pairing that has not expired is given one.
LEMMA MintKeepsFit ==
    ASSUME ScreenFits, NEW c \in Calls, c \in Live, ~Unexpired(forCall[c]),
           NEW p \in Pairings, p = Cardinality(Minted) + 1,
           NEW new \in PairingRecord, new.state = "there", new.of = c,
           pairing' = [pairing EXCEPT ![p] = new],
           forCall' = [forCall EXCEPT ![c] = p], UNCHANGED <<call, pushed>>
    PROVE  ScreenFits'
  <1>2. pairing'[p] = new /\ \A q \in Pairings : q # p => pairing'[q] = pairing[q]
    BY DEF ScreenFits, ScreenTypes, PairingRecord
  <1>3. ScreenTypes'
    BY DEF ScreenFits, ScreenTypes, PairingRecord
  <1>4. p \notin Minted /\ Minted \cup {p} = 1 .. p /\ p \in 0 .. MaxPairings
    BY MintIsNew
  <1>5. Minted' = Minted \cup {p}
    BY <1>2 DEF Minted
  <1>6. MintedInOrder'
    BY <1>4, <1>5 DEF MintedInOrder
  <1>7. PairingsFit'
    <2> SUFFICES ASSUME NEW q \in Pairings, Unexpired(q)'
                 PROVE  /\ pairing'[q].of \in Calls /\ forCall'[pairing'[q].of] = q
                        /\ call'[pairing'[q].of] = "over" => pairing'[q].life <= Grace
      BY DEF PairingsFit
    <2>1. CASE q = p
      <3>1. pairing'[q].of = c /\ forCall'[c] = p
        BY <2>1, <1>2 DEF ScreenFits, ScreenTypes, PairingRecord
      <3>2. call'[c] # "over"
        BY DEF Live
      <3> QED BY <2>1, <3>1, <3>2
    <2>2. CASE q # p
      <3>1. pairing'[q] = pairing[q] /\ Unexpired(q)
        BY <2>2, <1>2 DEF Unexpired, There
      <3>2. pairing[q].of # c
        BY <3>1 DEF ScreenFits, PairingsFit
      <3>3. forCall'[pairing[q].of] = forCall[pairing[q].of]
        BY <3>1, <3>2 DEF ScreenFits, ScreenTypes, PairingsFit
      <3> QED BY <3>1, <3>3 DEF ScreenFits, PairingsFit
    <2> QED BY <2>1, <2>2
  <1> QED BY <1>3, <1>6, <1>7 DEF ScreenFits

\* Pairings grow no longer lives, and a call that ends cuts its own short.
LEMMA AgeKeepsFit ==
    ASSUME ScreenFits, ScreenTypes', UNCHANGED forCall,
           \A p \in Pairings : /\ pairing'[p].state = pairing[p].state
                               /\ pairing'[p].of = pairing[p].of
                               /\ pairing'[p].life <= pairing[p].life,
           \A c \in Calls : call'[c] = "over" =>
               \/ call[c] = "over"
               \/ There(forCall[c]) => pairing'[forCall[c]].life <= Grace
    PROVE  ScreenFits'
  <1>1. MintedInOrder'
    <2>1. Minted' = Minted
      BY DEF Minted
    <2> QED BY <2>1 DEF ScreenFits, MintedInOrder
  <1>2. PairingsFit'
    <2> SUFFICES ASSUME NEW q \in Pairings, Unexpired(q)'
                 PROVE  /\ pairing'[q].of \in Calls /\ forCall'[pairing'[q].of] = q
                        /\ call'[pairing'[q].of] = "over" => pairing'[q].life <= Grace
      BY DEF PairingsFit
    <2>1. /\ pairing'[q].life \in Nat /\ pairing[q].life \in Nat
          /\ pairing'[q].life <= pairing[q].life /\ pairing'[q].of = pairing[q].of
      BY DEF ScreenFits, ScreenTypes, PairingRecord
    <2>2. Unexpired(q) /\ There(q)
      BY <2>1 DEF Unexpired, There
    <2>3. /\ pairing[q].of \in Calls /\ forCall[pairing[q].of] = q
          /\ call[pairing[q].of] = "over" => pairing[q].life <= Grace
      BY <2>2 DEF ScreenFits, PairingsFit
    <2>4. call'[pairing[q].of] = "over" => pairing'[q].life <= Grace
      BY <2>1, <2>2, <2>3, ScreenAssumption
    <2> QED BY <2>1, <2>3, <2>4
  <1> QED BY <1>1, <1>2 DEF ScreenFits

LEMMA ScreenFitsInit == Init => ScreenFits
  <1> SUFFICES ASSUME ScreenInit PROVE ScreenFits
    BY DEF Init
  <1>1. /\ call = [c \in Calls |-> "none"] /\ pairing = [p \in Pairings |-> Unminted]
        /\ forCall = [c \in Calls |-> NoPairing] /\ pushed = 0
    BY DEF ScreenInit
  <1>2. Unminted \in PairingRecord
    BY DEF Unminted, PairingRecord
  <1>3. ScreenTypes
    BY <1>1, <1>2 DEF ScreenTypes, PairingRecord
  <1>4. Minted = 1 .. 0
    BY <1>1 DEF Minted, Unminted
  <1>5. 0 \in 0 .. MaxPairings
    BY ScreenAssumption
  <1>6. \A p \in Pairings : ~Unexpired(p)
    BY <1>1 DEF Unexpired, There, Unminted
  <1> QED BY <1>3, <1>4, <1>5, <1>6 DEF ScreenFits, MintedInOrder, PairingsFit

LEMMA ScreenFitsStep == ScreenFits /\ [ScreenStep]_screenVars => ScreenFits'
  <1> SUFFICES ASSUME ScreenFits, [ScreenStep]_screenVars PROVE ScreenFits'
    OBVIOUS
  <1>0. ScreenTypes
    BY DEF ScreenFits
  <1>1. ASSUME NEW c \in Calls, PlaceCall(c) \/ Answered(c) PROVE ScreenFits'
    <2>1. /\ UNCHANGED <<pairing, forCall, pushed>>
          /\ call' \in [Calls -> {"none", "waiting", "in_call", "over"}]
          /\ \A d \in Calls : call'[d] = "over" => call[d] = "over"
      BY <1>0, <1>1 DEF PlaceCall, Answered, ScreenTypes, PairingRecord
    <2>2. ScreenTypes'
      BY <1>0, <2>1 DEF ScreenTypes, PairingRecord
    <2>3. \A p \in Pairings : pairing[p].life <= pairing[p].life
      BY <1>0 DEF ScreenTypes, PairingRecord
    <2> QED BY <2>1, <2>2, <2>3, AgeKeepsFit
  <1>2. ASSUME NEW c \in Calls, End(c) PROVE ScreenFits'
    <2>1. /\ call' = [call EXCEPT ![c] = "over"] /\ UNCHANGED <<forCall, pushed>>
          /\ pairing' = IF There(forCall[c]) /\ pairing[forCall[c]].life > Grace
                        THEN [pairing EXCEPT ![forCall[c]].life = Grace] ELSE pairing
      BY <1>2 DEF End, Close
    <2>2. There(forCall[c]) => forCall[c] \in Pairings
      BY <1>0 DEF There, ScreenTypes, PairingRecord
    <2>3. pairing' \in [Pairings -> PairingRecord]
      BY <1>0, <2>1, <2>2, ScreenAssumption DEF ScreenTypes, PairingRecord
    <2>4. ScreenTypes'
      BY <1>0, <2>1, <2>3 DEF ScreenTypes, PairingRecord
    <2>5. \A p \in Pairings : /\ pairing'[p].state = pairing[p].state
                              /\ pairing'[p].of = pairing[p].of
                              /\ pairing'[p].life <= pairing[p].life
      BY <1>0, <2>1, <2>2, ScreenAssumption DEF ScreenTypes, PairingRecord
    <2>6. There(forCall[c]) => pairing'[forCall[c]].life <= Grace
      BY <1>0, <2>1, <2>2, ScreenAssumption DEF ScreenTypes, PairingRecord
    <2>7. \A d \in Calls : d = c \/ call'[d] = call[d]
      BY <1>0, <2>1 DEF ScreenTypes, PairingRecord
    <2> QED BY <2>1, <2>4, <2>5, <2>6, <2>7, AgeKeepsFit
  <1>3. ASSUME NEW c \in Calls, AssistLink(c) PROVE ScreenFits'
    <2>1. /\ c \in Live /\ ~Unexpired(forCall[c]) /\ Cardinality(Minted) + 1 \in Pairings
          /\ UNCHANGED <<call, pushed>>
      BY <1>3 DEF AssistLink, Mint, Live
    <2>2. PICK p \in Pairings : p = Cardinality(Minted) + 1
      BY <2>1
    <2>3. PICK new \in PairingRecord : /\ new.state = "there" /\ new.of = c
                                       /\ new = [Unminted EXCEPT !.state = "there", !.of = c, !.life = Ttl]
      BY ScreenAssumption DEF Unminted, PairingRecord
    <2>4. pairing' = [pairing EXCEPT ![p] = new] /\ forCall' = [forCall EXCEPT ![c] = p]
      BY <1>3, <2>2, <2>3 DEF AssistLink, Mint
    <2> QED BY <2>1, <2>2, <2>3, <2>4, MintKeepsFit
  <1>4. CASE AppPoll
    <2>1. /\ Live # {} /\ forCall[Max(Live)] = NoPairing /\ Cardinality(Minted) + 1 \in Pairings
          /\ UNCHANGED <<call, pushed>>
      BY <1>4 DEF AppPoll
    <2>2. Max(Live) \in Live /\ Max(Live) \in Calls
      <3>1. Live \in SUBSET (0 .. MaxCalls) /\ MaxCalls \in Nat /\ Live \subseteq Calls
        BY ScreenAssumption DEF Live, Calls
      <3> QED BY <3>1, <2>1, GreatestIs
    <2>3. PICK c \in Calls : c = Max(Live) /\ c \in Live /\ ~Unexpired(forCall[c])
      BY <2>1, <2>2 DEF Unexpired, There
    <2>4. PICK p \in Pairings : p = Cardinality(Minted) + 1
      BY <2>1
    <2>5. PICK new \in PairingRecord : /\ new.state = "there" /\ new.of = c
                                       /\ new = [Unminted EXCEPT !.state = "there", !.of = c, !.life = Ttl,
                                                                 !.paired = TRUE]
      BY ScreenAssumption DEF Unminted, PairingRecord
    <2>6. pairing' = [pairing EXCEPT ![p] = new] /\ forCall' = [forCall EXCEPT ![c] = p]
      BY <1>4, <2>3, <2>4, <2>5 DEF AppPoll
    <2> QED BY <2>1, <2>3, <2>4, <2>5, <2>6, MintKeepsFit
  <1>5. ASSUME NEW c \in Calls, PushItem(c) PROVE ScreenFits'
    <2>1. /\ forCall[c] \in Pairings /\ UNCHANGED <<call, forCall>> /\ pushed' = pushed + 1
          /\ pairing' = [pairing EXCEPT ![forCall[c]].items = @ \cup {pushed + 1}]
      BY <1>0, <1>5 DEF PushItem, There, ScreenTypes, PairingRecord
    <2>2. ScreenTypes'
      BY <1>0, <2>1 DEF ScreenTypes, PairingRecord
    <2>3. \A p \in Pairings : /\ pairing'[p].state = pairing[p].state
                              /\ pairing'[p].of = pairing[p].of
                              /\ pairing'[p].life <= pairing[p].life
      BY <1>0, <2>1 DEF ScreenTypes, PairingRecord
    <2> QED BY <2>1, <2>2, <2>3, AgeKeepsFit
  <1>6. ASSUME NEW p \in Pairings, Pair(p) \/ \E i \in Items : Respond(p, i) PROVE ScreenFits'
    <2>1. PICK new \in PairingRecord :
             /\ UNCHANGED <<call, forCall, pushed>> /\ pairing' = [pairing EXCEPT ![p] = new]
             /\ new.state = pairing[p].state /\ new.of = pairing[p].of /\ new.life = pairing[p].life
      <3>1. CASE Pair(p)
        <4>1. [pairing[p] EXCEPT !.paired = TRUE] \in PairingRecord
          BY <1>0 DEF ScreenTypes, PairingRecord
        <4> QED BY <3>1, <4>1, <1>0 DEF Pair, ScreenTypes, PairingRecord
      <3>2. CASE \E i \in Items : Respond(p, i)
        <4>1. PICK i \in Nat : Respond(p, i)
          BY <3>2 DEF Items
        <4>2. [pairing[p] EXCEPT !.answered = @ \cup {i}, !.paired = TRUE] \in PairingRecord
          BY <1>0 DEF ScreenTypes, PairingRecord
        <4> QED BY <4>1, <4>2, <1>0 DEF Respond, ScreenTypes, PairingRecord
      <3> QED BY <1>6, <3>1, <3>2
    <2>2. ScreenTypes'
      BY <1>0, <2>1 DEF ScreenTypes, PairingRecord
    <2>3. \A q \in Pairings : /\ pairing'[q].state = pairing[q].state
                              /\ pairing'[q].of = pairing[q].of
                              /\ pairing'[q].life <= pairing[q].life
      BY <1>0, <2>1 DEF ScreenTypes, PairingRecord
    <2> QED BY <2>1, <2>2, <2>3, AgeKeepsFit
  <1>7. CASE ScreenTimePasses
    <2>1. /\ UNCHANGED <<call, forCall, pushed>>
          /\ pairing' = [p \in Pairings |-> IF Unexpired(p) THEN [pairing[p] EXCEPT !.life = @ - 1]
                                            ELSE pairing[p]]
      BY <1>7 DEF ScreenTimePasses
    <2>2. ASSUME NEW p \in Pairings, Unexpired(p) PROVE pairing[p].life - 1 \in Nat
      <3>1. pairing[p].life \in Nat /\ pairing[p].life > 0
        BY <1>0, <2>2 DEF ScreenTypes, PairingRecord, Unexpired
      <3> QED BY <3>1
    <2>3. \A p \in Pairings : Unexpired(p) =>
             [pairing[p] EXCEPT !.life = @ - 1] \in PairingRecord
      BY <1>0, <2>2 DEF ScreenTypes, PairingRecord
    <2>4. ScreenTypes'
      BY <1>0, <2>1, <2>3 DEF ScreenTypes, PairingRecord
    <2>5. \A q \in Pairings : /\ pairing'[q].state = pairing[q].state
                              /\ pairing'[q].of = pairing[q].of
                              /\ pairing'[q].life <= pairing[q].life
      BY <1>0, <2>1 DEF ScreenTypes, PairingRecord
    <2> QED BY <2>1, <2>4, <2>5, AgeKeepsFit
  <1>8. CASE ScreenSweep
    <2>1. /\ UNCHANGED <<call, pushed>>
          /\ pairing' = [p \in Pairings |-> IF p \in Dead THEN [pairing[p] EXCEPT !.state = "swept"]
                                            ELSE pairing[p]]
          /\ forCall' = [c \in Calls |-> IF forCall[c] \in Dead THEN NoPairing ELSE forCall[c]]
      BY <1>8 DEF ScreenSweep
    <2>2. ScreenTypes'
      BY <1>0, <2>1 DEF ScreenTypes, PairingRecord
    <2>3. Minted' = Minted
      BY <1>0, <2>1 DEF Minted, Dead, There, ScreenTypes, PairingRecord
    <2>4. ASSUME NEW p \in Pairings, Unexpired(p)'
          PROVE  pairing'[p] = pairing[p] /\ Unexpired(p) /\ p \notin Dead
      BY <1>0, <2>1, <2>4 DEF Unexpired, There, Dead, ScreenTypes, PairingRecord
    <2>5. PairingsFit'
      BY <2>1, <2>4 DEF ScreenFits, PairingsFit
    <2> QED BY <2>2, <2>3, <2>5 DEF ScreenFits, MintedInOrder
  <1>9. CASE UNCHANGED screenVars
    BY <1>9 DEF screenVars, ScreenFits, ScreenTypes, MintedInOrder, PairingsFit, Unexpired, There, Minted
  <1> QED BY <1>1, <1>2, <1>3, <1>4, <1>5, <1>6, <1>7, <1>8, <1>9 DEF ScreenStep

LEMMA ScreenFitsAlways == Spec => []ScreenFits
  <1>1. [Next]_vars => [ScreenStep]_screenVars
    BY DEF Next, vars, screenVars
  <1> QED BY <1>1, ScreenFitsInit, ScreenFitsStep, PTL DEF Spec

\* A call has one screen and none outlives the grace, whatever the customer's
\* calls, the links sent and the polls of the app (AssistService).
THEOREM OneScreenAlways == Spec => []OneScreenPerCall
  <1>1. ScreenFits => OneScreenPerCall
    BY DEF ScreenFits, PairingsFit, OneScreenPerCall
  <1> QED BY <1>1, ScreenFitsAlways, PTL

\* Where a customer has one call at a time, no more is live.
OneIsLive == \A c, d \in Live : c = d

LEMMA OneIsLiveStep ==
    ASSUME CallsAtOnce \in {0, 1}
    PROVE  ScreenFits /\ OneIsLive /\ [ScreenStep]_screenVars => OneIsLive'
  <1> SUFFICES ASSUME ScreenFits, OneIsLive, [ScreenStep]_screenVars PROVE OneIsLive'
    OBVIOUS
  <1>0. ScreenTypes
    BY DEF ScreenFits
  <1>1. ASSUME NEW c \in Calls, PlaceCall(c) PROVE OneIsLive'
    <2>1. call' = [call EXCEPT ![c] = "waiting"] /\ Cardinality(Live) < CallsAtOnce
      BY <1>1 DEF PlaceCall
    <2>2. IsFiniteSet(Live)
      <3>1. IsFiniteSet(1 .. MaxCalls)
        <4>1. 1 \in Int /\ MaxCalls \in Int
          BY ScreenAssumption
        <4> QED BY <4>1, FS_Interval
      <3>2. Live \subseteq 1 .. MaxCalls
        BY DEF Live, Calls
      <3> QED BY <3>1, <3>2, FS_Subset
    <2>3. Live = {}
      BY <2>1, <2>2, FS_CardinalityType, FS_EmptySet
    <2>4. Live' = {c}
      BY <1>0, <2>1, <2>3 DEF Live, ScreenTypes, PairingRecord
    <2> QED BY <2>4 DEF OneIsLive
  <1>2. CASE ~\E c \in Calls : PlaceCall(c)
    <2>1. \A c \in Calls : call'[c] \in {"waiting", "in_call"} => call[c] \in {"waiting", "in_call"}
      BY <1>0, <1>2 DEF ScreenStep, screenVars, Answered, End, AssistLink, PushItem, Pair, Respond, AppPoll,
                        ScreenTimePasses, ScreenSweep, ScreenTypes
    <2>2. Live' \subseteq Live
      BY <2>1 DEF Live
    <2> QED BY <2>2 DEF OneIsLive
  <1> QED BY <1>1, <1>2

\* What is pushed to a caller is seen where they look, and comes back; for a
\* customer who has one call at a time (app_assist and its answers, mobile.py).
THEOREM ScreenAlwaysWorks ==
    ASSUME CallsAtOnce \in {0, 1}
    PROVE  Spec => []ScreenWorks
  <1>1. Init => OneIsLive
    BY DEF Init, ScreenInit, OneIsLive, Live
  <1>2. [Next]_vars => [ScreenStep]_screenVars
    BY DEF Next, vars, screenVars
  <1>3. ScreenFits /\ OneIsLive => ScreenWorks
    <2> SUFFICES ASSUME ScreenFits, OneIsLive PROVE ScreenWorks
      OBVIOUS
    <2>1. OneScreenPerCall
      BY DEF ScreenFits, PairingsFit, OneScreenPerCall
    <2>2. ShownScreen = AnswerGoesTo
      <3>1. CASE Live = {}
        BY <3>1 DEF ShownScreen, AnswerGoesTo
      <3>2. CASE Live # {}
        <4>1. PICK c \in Calls : Live = {c}
          BY <3>2 DEF OneIsLive, Live
        <4>2. Max({c}) = c /\ Min({c}) = c
          BY ScreenAssumption DEF Max, Min, Calls
        <4> QED BY <3>2, <4>1, <4>2 DEF ShownScreen, AnswerGoesTo
      <3> QED BY <3>1, <3>2
    <2>3. ShownCanBeSent
      BY <2>2 DEF ShownCanBeSent
    <2> QED BY <2>1, <2>3 DEF ScreenWorks
  <1> QED BY <1>1, <1>2, <1>3, ScreenFitsAlways, OneIsLiveStep, PTL DEF Spec

-----------------------------------------------------------------------------
(* The digits a caller keys.                                               *)

CaptureRecord ==
    [state : CaptureState, digits : Nat, labelled : BOOLEAN, matched : SUBSET LookupKind]

RowRecord ==
    [state : CaptureState, digits : Nat, count : Nat, labelled : BOOLEAN, matched : SUBSET LookupKind]

AskingRecord == [at : {"asking"}, of : Captures, kind : LookupKind, some : BOOLEAN]

LoadingRecord == [at : {"loading"}, of : Captures, store : BOOLEAN, gone : BOOLEAN]

WritingRecord == [at : {"writing"}, of : Captures, was : RowRecord, gone : BOOLEAN, is : RowRecord]

CaptureTypes ==
    /\ capture \in [Captures -> CaptureRecord] /\ row \in [Captures -> RowRecord]
    /\ request \in [Tabs -> {Idle} \cup AskingRecord \cup LoadingRecord \cup WritingRecord]
    /\ open \in Captures \cup {NoCapture} /\ gone \in SUBSET Captures

\* Captures are started one after the other, and only the open one may have no
\* row yet.
StartedInOrder ==
    /\ \E n \in 0 .. MaxCaptures : /\ Started = 1 .. n /\ open \in {NoCapture, n}
                                   /\ \A c \in 1 .. n : c # open => row[c].state # "NONE"
    /\ open # NoCapture => capture[open].state = "OPEN"
    /\ \A c \in Captures : capture[c].state = "NONE" =>
           /\ row[c].state = "NONE" /\ capture[c].matched = {} /\ ~capture[c].labelled

\* A row says of a capture no more than memory does, and has digits only with a name.
RowsFit ==
    \A c \in Captures : /\ row[c].labelled => capture[c].labelled
                        /\ row[c].matched \subseteq capture[c].matched
                        /\ row[c].digits > 0 => IsNamed(row[c])
                        /\ IsNamed(row[c]) => row[c].state # "NONE"

\* What a request is about to write was named when it says so, and what it found
\* named has a name still.
WriteFits(q) ==
    /\ q.is.state # "NONE"
    /\ q.is.labelled => capture[q.of].labelled
    /\ q.is.matched \subseteq capture[q.of].matched
    /\ q.was.state # "NONE" => row[q.of].state # "NONE"
    /\ q.was.labelled => q.is.labelled /\ row[q.of].labelled
    /\ q.was.matched \subseteq q.is.matched
    /\ q.was.matched # {} => row[q.of].matched # {}
    /\ q.is.digits > 0 => IsNamed(q.is)

RequestsFit ==
    \A t \in Tabs :
        /\ request[t].at # "idle" => capture[request[t].of].state # "NONE"
        /\ request[t].at = "loading" /\ request[t].store => IsNamed(capture[request[t].of])
        /\ request[t].at = "writing" => WriteFits(request[t])

\* Discarded while nothing else was being written, answered or about to be.
ForGood(c) ==
    \/ c \in gone
    \/ \E t \in Tabs : request[t].at \in {"loading", "writing"} /\ request[t].of = c /\ request[t].gone

\* Nothing that will still be written brings back what was discarded.
KeepsGone(q) ==
    /\ q.is.state = "DISCARDED" /\ q.is.digits = 0
    /\ q.was.state = "DISCARDED" => row[q.of].state = "DISCARDED"
    /\ q.was.digits = 0 => row[q.of].digits = 0

DiscardsFit ==
    /\ \A c \in gone : row[c].state = "DISCARDED" /\ row[c].digits = 0
    /\ \A c \in Captures : ForGood(c) => capture[c].state = "DISCARDED" /\ capture[c].digits = 0
    /\ \A t \in Tabs : request[t].at = "writing" /\ ForGood(request[t].of) => KeepsGone(request[t])

CaptureFits == CaptureTypes /\ StartedInOrder /\ RowsFit /\ RequestsFit /\ DiscardsFit

LEMMA LatestIsStarted ==
    ASSUME CaptureFits, Shown(Latest)
    PROVE  /\ Latest \in Captures /\ capture[Latest].state # "NONE" /\ row[Latest].state # "NONE"
           /\ open # NoCapture => Latest = open
  <1>1. Latest # NoCapture /\ row[Latest].state # "NONE"
    BY DEF Shown
  <1>2. Latest \in Captures
    <2>1. CASE open # NoCapture
      BY <2>1 DEF Latest, CaptureFits, CaptureTypes
    <2>2. CASE open = NoCapture
      <3>1. Started \cup {NoCapture} \in SUBSET (0 .. MaxCaptures) /\ MaxCaptures \in Nat
        BY CaptureAssumption DEF Started, Captures, NoCapture
      <3>2. Max(Started \cup {NoCapture}) \in Started \cup {NoCapture}
        BY <3>1, GreatestIs
      <3> QED BY <3>2, <2>2, <1>1 DEF Latest, Started
    <2> QED BY <2>1, <2>2
  <1> QED BY <1>1, <1>2 DEF CaptureFits, StartedInOrder, Latest

\* A request changes a capture in memory and goes on to write it.
LEMMA BecomesKeepsFit ==
    ASSUME CaptureFits, NEW t \in Tabs, NEW c \in Captures, NEW k \in CaptureRecord,
           Becomes(t, c, k), request[t].at \notin {"loading", "writing"},
           UNCHANGED <<row, gone>>, open' \in Captures \cup {NoCapture}, StartedInOrder',
           k.state # "NONE", capture[c].labelled => k.labelled, capture[c].matched \subseteq k.matched,
           k.state = "DISCARDED" => k.digits = 0 \/ capture[c].state = "DISCARDED",
           ForGood(c) => k.state = "DISCARDED" /\ k.digits = 0
    PROVE  CaptureFits'
  <1>0. CaptureTypes /\ RowsFit /\ RequestsFit /\ DiscardsFit
    BY DEF CaptureFits
  <1>1. PICK q \in LoadingRecord :
           /\ q = [at |-> "loading", of |-> c, store |-> IsNamed(k),
                   gone |-> k.state = "DISCARDED" /\ ~Writing(c) /\ capture[c].state # "DISCARDED"]
           /\ request' = [request EXCEPT ![t] = q]
    <2> DEFINE last == k.state = "DISCARDED" /\ ~Writing(c) /\ capture[c].state # "DISCARDED"
    <2>1. IsNamed(k) \in BOOLEAN /\ last \in BOOLEAN
      BY Zenon DEF IsNamed
    <2>2. request' = [request EXCEPT ![t] = [at |-> "loading", of |-> c, store |-> IsNamed(k), gone |-> last]]
      BY Zenon DEF Becomes, Persist
    <2> HIDE DEF last
    <2>3. [at |-> "loading", of |-> c, store |-> IsNamed(k), gone |-> last] \in LoadingRecord
      BY <2>1 DEF LoadingRecord
    <2> QED BY <2>2, <2>3, Zenon DEF last
  <1>2. capture' = [capture EXCEPT ![c] = k]
    BY DEF Becomes
  <1>3. CaptureTypes'
    BY <1>0, <1>1, <1>2 DEF CaptureTypes
  <1>4. /\ capture'[c] = k /\ \A d \in Captures : d # c => capture'[d] = capture[d]
        /\ request'[t] = q /\ \A u \in Tabs : u # t => request'[u] = request[u]
    BY <1>0, <1>1, <1>2 DEF CaptureTypes
  <1>5. RowsFit'
    BY <1>0, <1>4 DEF RowsFit, IsNamed
  <1>6. \A d \in Captures : /\ capture[d].labelled => capture'[d].labelled
                            /\ capture[d].matched \subseteq capture'[d].matched
                            /\ capture[d].state # "NONE" => capture'[d].state # "NONE"
                            /\ IsNamed(capture[d]) => IsNamed(capture'[d])
    BY <1>4 DEF IsNamed
  <1>7. RequestsFit'
    <2> SUFFICES ASSUME NEW u \in Tabs
                 PROVE  /\ request'[u].at # "idle" => capture'[request'[u].of].state # "NONE"
                        /\ request'[u].at = "loading" /\ request'[u].store =>
                              IsNamed(capture'[request'[u].of])
                        /\ request'[u].at = "writing" => WriteFits(request[u])' /\ u # t
      BY <1>4 DEF RequestsFit, WriteFits
    <2>1. CASE u = t
      BY <2>1, <1>1, <1>4
    <2>2. CASE u # t
      <3>1. request'[u] = request[u] /\ (request[u].at # "idle" => request[u].of \in Captures)
        BY <2>2, <1>0, <1>4 DEF CaptureTypes, Idle, AskingRecord, LoadingRecord, WritingRecord
      <3>2. request[u].at = "writing" => WriteFits(request[u])'
        BY <3>1, <1>0, <1>6 DEF RequestsFit, WriteFits
      <3> QED BY <2>2, <3>1, <3>2, <1>0, <1>6 DEF RequestsFit
    <2> QED BY <2>1, <2>2
  <1>8. DiscardsFit'
    <2>1. \A d \in Captures : ForGood(d)' => ForGood(d) \/ (d = c /\ q.gone)
      BY <1>1, <1>4 DEF ForGood
    <2>2. q.gone => k.state = "DISCARDED" /\ k.digits = 0
      BY <1>1
    <2>3. \A d \in Captures : ForGood(d)' => capture'[d].state = "DISCARDED" /\ capture'[d].digits = 0
      BY <2>1, <2>2, <1>0, <1>4 DEF DiscardsFit
    <2>4. ASSUME NEW u \in Tabs, request'[u].at = "writing", ForGood(request[u].of)'
          PROVE  KeepsGone(request[u])'
      <3>1. u # t /\ request'[u] = request[u] /\ request[u].of \in Captures
        BY <2>4, <1>0, <1>1, <1>4 DEF CaptureTypes, Idle, AskingRecord, LoadingRecord, WritingRecord
      <3>2. ~(request[u].of = c /\ q.gone)
        BY <2>4, <3>1, <1>1 DEF Writing
      <3>3. ForGood(request[u].of)
        <4>1. PICK d \in Captures : d = request[u].of
          BY <3>1
        <4>2. ForGood(d)'
          BY <2>4, <3>1, <4>1
        <4> QED BY <4>1, <4>2, <2>1, <3>2
      <3>4. KeepsGone(request[u])
        BY <2>4, <3>1, <3>3, <1>0 DEF DiscardsFit
      <3> QED BY <3>1, <3>4 DEF KeepsGone
    <2> QED BY <2>3, <2>4, <1>0 DEF DiscardsFit
  <1> QED BY <1>3, <1>5, <1>7, <1>8 DEF CaptureFits

\* A capture that was started changes, and its row is there if it closes.
LEMMA StartedStaysInOrder ==
    ASSUME CaptureFits, NEW c \in Captures, NEW k \in CaptureRecord,
           capture' = [capture EXCEPT ![c] = k], row' = row,
           capture[c].state # "NONE", k.state # "NONE",
           \/ open' = open /\ k.state = capture[c].state
           \/ open' = NoCapture /\ (open # NoCapture => row[open].state # "NONE")
    PROVE  StartedInOrder'
  <1>1. /\ capture'[c] = k /\ \A d \in Captures : d # c => capture'[d] = capture[d]
    BY DEF CaptureFits, CaptureTypes
  <1>2. Started' = Started
    BY <1>1 DEF Started
  <1>3. PICK n \in 0 .. MaxCaptures : /\ Started = 1 .. n /\ open \in {NoCapture, n}
                                      /\ \A d \in 1 .. n : d # open => row[d].state # "NONE"
    BY DEF CaptureFits, StartedInOrder
  <1>4. open' \in {NoCapture, n} /\ \A d \in 1 .. n : d # open' => row'[d].state # "NONE"
    BY <1>3
  <1>5. open' # NoCapture => capture'[open'].state = "OPEN"
    BY <1>1 DEF CaptureFits, StartedInOrder, CaptureTypes
  <1>6. \A d \in Captures : capture'[d].state = "NONE" =>
           /\ row'[d].state = "NONE" /\ capture'[d].matched = {} /\ ~capture'[d].labelled
    BY <1>1 DEF CaptureFits, StartedInOrder
  <1> QED BY <1>2, <1>3, <1>4, <1>5, <1>6 DEF StartedInOrder

LEMMA CaptureFitsInit == Init => CaptureFits
  <1> SUFFICES ASSUME CaptureInit PROVE CaptureFits
    BY DEF Init
  <1>1. /\ capture = [c \in Captures |-> Absent] /\ row = [c \in Captures |-> NoRow]
        /\ open = NoCapture /\ request = [t \in Tabs |-> Idle] /\ gone = {}
    BY DEF CaptureInit
  <1>2. Absent \in CaptureRecord /\ NoRow \in RowRecord
    BY DEF Absent, NoRow, CaptureRecord, RowRecord, CaptureState
  <1>3. CaptureTypes
    BY <1>1, <1>2 DEF CaptureTypes
  <1>4. StartedInOrder
    <2>1. Started = 1 .. 0 /\ 0 \in 0 .. MaxCaptures
      BY <1>1, CaptureAssumption DEF Started, Absent
    <2> QED BY <2>1, <1>1 DEF StartedInOrder, Absent, NoRow
  <1>5. RowsFit
    BY <1>1 DEF RowsFit, NoRow, Absent, IsNamed
  <1>6. RequestsFit /\ DiscardsFit
    BY <1>1 DEF RequestsFit, DiscardsFit, ForGood, Idle
  <1> QED BY <1>3, <1>4, <1>5, <1>6 DEF CaptureFits

\* Only the count of the open capture's digits changes.
LEMMA KeyingKeepsFit ==
    ASSUME CaptureFits, Shown(open), NEW n \in Nat, capture' = [capture EXCEPT ![open].digits = n],
           UNCHANGED <<open, row, request, gone>>
    PROVE  CaptureFits'
  <1>1. open \in Captures /\ capture[open].state = "OPEN"
    BY DEF CaptureFits, CaptureTypes, Shown, StartedInOrder
  <1>2. PICK k \in CaptureRecord : /\ k = [capture[open] EXCEPT !.digits = n]
                                   /\ k.state = "OPEN" /\ k.labelled = capture[open].labelled
                                   /\ k.matched = capture[open].matched
    BY <1>1 DEF CaptureFits, CaptureTypes, CaptureRecord
  <1>3. capture' = [capture EXCEPT ![open] = k]
    BY <1>1, <1>2 DEF CaptureFits, CaptureTypes
  <1>4. /\ capture'[open] = k /\ \A d \in Captures : d # open => capture'[d] = capture[d]
    BY <1>1, <1>3 DEF CaptureFits, CaptureTypes
  <1>5. CaptureTypes'
    BY <1>3 DEF CaptureFits, CaptureTypes
  <1>6. StartedInOrder'
    BY <1>1, <1>2, <1>3, StartedStaysInOrder
  <1>7. \A d \in Captures : /\ capture'[d].labelled = capture[d].labelled
                            /\ capture'[d].matched = capture[d].matched
                            /\ capture'[d].state = capture[d].state
    BY <1>1, <1>2, <1>4
  <1>8. RowsFit'
    BY <1>7 DEF CaptureFits, RowsFit, IsNamed
  <1>9. RequestsFit'
    <2>1. \A t \in Tabs : request[t].at # "idle" => request[t].of \in Captures
      BY DEF CaptureFits, CaptureTypes, Idle, AskingRecord, LoadingRecord, WritingRecord
    <2>2. \A t \in Tabs : request[t].at = "writing" => WriteFits(request[t])'
      BY <2>1, <1>7 DEF CaptureFits, RequestsFit, WriteFits
    <2> QED BY <2>1, <2>2, <1>7 DEF CaptureFits, RequestsFit, IsNamed, WriteFits
  <1>10. DiscardsFit'
    <2>1. ~ForGood(open)
      BY <1>1 DEF CaptureFits, DiscardsFit
    <2>2. \A d \in Captures : ForGood(d)' <=> ForGood(d)
      BY DEF ForGood
    <2>3. \A d \in Captures : ForGood(d)' => capture'[d].state = "DISCARDED" /\ capture'[d].digits = 0
      BY <2>1, <2>2, <1>4 DEF CaptureFits, DiscardsFit
    <2>4. \A t \in Tabs : request'[t].at = "writing" /\ ForGood(request[t].of)' => KeepsGone(request[t])'
      BY DEF CaptureFits, DiscardsFit, ForGood, KeepsGone
    <2> QED BY <2>3, <2>4 DEF CaptureFits, DiscardsFit
  <1> QED BY <1>5, <1>6, <1>8, <1>9, <1>10 DEF CaptureFits

LEMMA StartKeepsFit == ASSUME CaptureFits, NEW t \in Tabs, NEW c \in Captures, CaptureStart(t, c) PROVE CaptureFits'
  <1>1. /\ request[t] = Idle /\ open = NoCapture /\ c = Cardinality(Started) + 1 /\ open' = c
        /\ Becomes(t, c, [Absent EXCEPT !.state = "OPEN"]) /\ UNCHANGED <<row, gone, restarts>>
    BY DEF CaptureStart
  <1>2. PICK k \in CaptureRecord : k = [Absent EXCEPT !.state = "OPEN"] /\ k.state = "OPEN"
    <2>1. Absent \in CaptureRecord
      BY DEF Absent, CaptureRecord, CaptureState
    <2>2. [Absent EXCEPT !.state = "OPEN"] \in CaptureRecord /\ [Absent EXCEPT !.state = "OPEN"].state = "OPEN"
      BY <2>1 DEF CaptureRecord, CaptureState
    <2> QED BY <2>2
  <1>3. PICK n \in 0 .. MaxCaptures : Started = 1 .. n /\ \A d \in 1 .. n : row[d].state # "NONE"
    <2>1. PICK n \in 0 .. MaxCaptures : /\ Started = 1 .. n
                                        /\ \A d \in 1 .. n : d # open => row[d].state # "NONE"
      BY DEF CaptureFits, StartedInOrder
    <2> QED BY <2>1, <1>1 DEF NoCapture
  <1>4. c = n + 1 /\ c \notin Started
    <2>1. n \in Int /\ 1 \in Int
      OBVIOUS
    <2>2. Cardinality(1 .. n) = n
      BY <2>1, FS_Interval
    <2> QED BY <1>1, <1>3, <2>2
  <1>5. capture[c].state = "NONE" /\ capture[c].matched = {} /\ ~capture[c].labelled
    BY <1>4 DEF Started, CaptureFits, StartedInOrder
  <1>6. capture' = [capture EXCEPT ![c] = k] /\ Becomes(t, c, k)
    BY <1>1, <1>2 DEF Becomes
  <1>7. capture'[c] = k /\ \A d \in Captures : d # c => capture'[d] = capture[d]
    BY <1>6 DEF CaptureFits, CaptureTypes
  <1>8. StartedInOrder'
    <2>1. Started' = Started \cup {c}
      BY <1>2, <1>7 DEF Started
    <2>2. Started' = 1 .. c /\ c \in 0 .. MaxCaptures
      BY <2>1, <1>3, <1>4 DEF Captures
    <2>3. \A d \in 1 .. c : d # open' => row'[d].state # "NONE"
      BY <1>1, <1>3, <1>4
    <2>4. \A d \in Captures : capture'[d].state = "NONE" =>
             /\ row'[d].state = "NONE" /\ capture'[d].matched = {} /\ ~capture'[d].labelled
      BY <1>1, <1>2, <1>7 DEF CaptureFits, StartedInOrder
    <2>5. capture'[c].state = "OPEN"
      BY <1>2, <1>7
    <2> QED BY <2>2, <2>3, <2>4, <2>5, <1>1 DEF StartedInOrder
  <1>9. ~ForGood(c)
    BY <1>5 DEF CaptureFits, DiscardsFit
  <1>10. request[t].at \notin {"loading", "writing"}
    BY <1>1 DEF Idle
  <1> QED BY <1>1, <1>2, <1>5, <1>6, <1>8, <1>9, <1>10, BecomesKeepsFit

\* What a request may make of a capture that was started.
LEMMA ChangeKeepsFit ==
    ASSUME CaptureFits, NEW t \in Tabs, NEW c \in Captures, NEW k \in CaptureRecord, Becomes(t, c, k),
           request[t].at \notin {"loading", "writing"}, UNCHANGED <<row, gone>>,
           capture[c].state # "NONE",
           \/ open' = open /\ k.state = capture[c].state /\ k.digits = capture[c].digits
           \/ /\ open' = NoCapture /\ (open # NoCapture => row[open].state # "NONE")
              /\ \/ k.state = "STOPPED" /\ capture[c].state # "DISCARDED"
                 \/ k.state = "DISCARDED" /\ k.digits = 0,
           capture[c].labelled => k.labelled, capture[c].matched \subseteq k.matched
    PROVE  CaptureFits'
  <1>1. capture' = [capture EXCEPT ![c] = k]
    BY DEF Becomes
  <1>2. k.state # "NONE"
    OBVIOUS
  <1>3. StartedInOrder'
    BY <1>1, <1>2, StartedStaysInOrder
  <1>4. ForGood(c) => capture[c].state = "DISCARDED" /\ capture[c].digits = 0
    BY DEF CaptureFits, DiscardsFit
  <1>5. ForGood(c) => k.state = "DISCARDED" /\ k.digits = 0
    BY <1>4
  <1>6. k.state = "DISCARDED" => k.digits = 0 \/ capture[c].state = "DISCARDED"
    OBVIOUS
  <1>7. open' \in Captures \cup {NoCapture}
    BY DEF CaptureFits, CaptureTypes
  <1> QED BY <1>2, <1>3, <1>5, <1>6, <1>7, BecomesKeepsFit

LEMMA LookupKeepsFit ==
    ASSUME CaptureFits, NEW t \in Tabs, NEW kind \in LookupKind, CaptureLookup(t, kind)
    PROVE  CaptureFits'
  <1>1. /\ Latest \in Captures /\ capture[Latest].state # "NONE"
    BY LatestIsStarted DEF CaptureLookup
  <1>2. PICK q \in AskingRecord : q.of = Latest /\ request' = [request EXCEPT ![t] = q]
    <2>1. (capture[Latest].digits > 0) \in BOOLEAN
      OBVIOUS
    <2>2. [at |-> "asking", of |-> Latest, kind |-> kind, some |-> capture[Latest].digits > 0] \in AskingRecord
      BY <1>1, <2>1 DEF AskingRecord
    <2> QED BY <2>2, Zenon DEF CaptureLookup
  <1>3. UNCHANGED <<capture, open, row, gone>>
    BY DEF CaptureLookup
  <1>4. CaptureTypes'
    BY <1>2, <1>3 DEF CaptureFits, CaptureTypes
  <1>5. request'[t] = q /\ q.at = "asking" /\ \A u \in Tabs : u # t => request'[u] = request[u]
    BY <1>2 DEF CaptureFits, CaptureTypes, AskingRecord
  <1>6. StartedInOrder' /\ RowsFit'
    BY <1>3 DEF CaptureFits, StartedInOrder, RowsFit, IsNamed, Started
  <1>7. RequestsFit'
    BY <1>1, <1>2, <1>3, <1>5 DEF CaptureFits, RequestsFit, WriteFits, IsNamed
  <1>8. \A d \in Captures : ForGood(d)' => ForGood(d)
    BY <1>3, <1>5 DEF ForGood
  <1>9. DiscardsFit'
    <2>1. ASSUME NEW u \in Tabs, request'[u].at = "writing", ForGood(request[u].of)'
          PROVE  KeepsGone(request[u])'
      <3>1. request'[u] = request[u] /\ request[u].of \in Captures
        BY <2>1, <1>5 DEF CaptureFits, CaptureTypes, Idle, AskingRecord, LoadingRecord, WritingRecord
      <3>2. ForGood(request[u].of)
        <4>1. PICK d \in Captures : d = request[u].of
          BY <3>1
        <4>2. ForGood(d)'
          BY <2>1, <3>1, <4>1
        <4> QED BY <4>1, <4>2, <1>8
      <3> QED BY <2>1, <3>1, <3>2, <1>3 DEF CaptureFits, DiscardsFit, KeepsGone
    <2> QED BY <2>1, <1>3, <1>8 DEF CaptureFits, DiscardsFit
  <1> QED BY <1>4, <1>6, <1>7, <1>9 DEF CaptureFits

LEMMA LoadKeepsFit == ASSUME CaptureFits, NEW t \in Tabs, CaptureLoad(t) PROVE CaptureFits'
  <1>0. CaptureTypes /\ RowsFit /\ RequestsFit /\ DiscardsFit
    BY DEF CaptureFits
  <1>1. request[t].at = "loading" /\ request[t] \in LoadingRecord /\ request[t].of \in Captures
    BY <1>0 DEF CaptureLoad, CaptureTypes, Idle, AskingRecord, LoadingRecord, WritingRecord
  <1>2. PICK c \in Captures : c = request[t].of
    BY <1>1
  <1>3. PICK q \in WritingRecord :
           /\ request' = [request EXCEPT ![t] = q] /\ q.of = c /\ q.gone = request[t].gone
           /\ q.was = row[c] /\ q.is = Columns(capture[c], request[t].store)
    <2>1. Columns(capture[c], request[t].store) \in RowRecord
      BY <1>0, <1>1 DEF Columns, CaptureTypes, CaptureRecord, RowRecord, LoadingRecord
    <2> DEFINE new == [at |-> "writing", of |-> c, was |-> row[c], gone |-> request[t].gone,
                       is |-> Columns(capture[c], request[t].store)]
    <2>2. new \in WritingRecord
      BY <2>1, <1>0, <1>1 DEF WritingRecord, CaptureTypes, LoadingRecord
    <2>3. request' = [request EXCEPT ![t] = new]
      BY <1>0, <1>2 DEF CaptureLoad, CaptureTypes
    <2> QED BY <2>2, <2>3
  <1>4. UNCHANGED <<capture, open, row, gone>>
    BY DEF CaptureLoad
  <1>5. request'[t] = q /\ q.at = "writing" /\ \A u \in Tabs : u # t => request'[u] = request[u]
    BY <1>0, <1>3 DEF CaptureTypes, WritingRecord
  <1>6. CaptureTypes'
    BY <1>0, <1>3, <1>4 DEF CaptureTypes
  <1>7. StartedInOrder' /\ RowsFit'
    BY <1>4 DEF CaptureFits, StartedInOrder, RowsFit, IsNamed, Started
  <1>8. /\ q.is.state = capture[c].state /\ q.is.labelled = capture[c].labelled
        /\ q.is.matched = capture[c].matched
        /\ q.is.digits = IF request[t].store THEN capture[c].digits ELSE 0
    BY <1>3 DEF Columns
  <1>9. WriteFits(q)
    <2>1. capture[c].state # "NONE" /\ (request[t].store => IsNamed(capture[c]))
      BY <1>0, <1>1, <1>2 DEF RequestsFit
    <2>2. q.is.digits > 0 => IsNamed(q.is)
      BY <2>1, <1>8 DEF IsNamed
    <2> QED BY <2>1, <2>2, <1>0, <1>3, <1>8 DEF WriteFits, RowsFit
  <1>10. RequestsFit'
    <2>1. \A u \in Tabs : request'[u].at = "writing" => WriteFits(request[u])'
      BY <1>0, <1>4, <1>5, <1>9 DEF RequestsFit, WriteFits, IsNamed
    <2>2. capture[c].state # "NONE"
      BY <1>0, <1>1, <1>2 DEF RequestsFit
    <2> QED BY <2>1, <2>2, <1>0, <1>3, <1>4, <1>5 DEF RequestsFit, IsNamed
  <1>11. \A d \in Captures : ForGood(d)' => ForGood(d)
    BY <1>1, <1>2, <1>3, <1>4, <1>5 DEF ForGood
  <1>12. ASSUME NEW u \in Tabs, request'[u].at = "writing", ForGood(request[u].of)'
         PROVE  KeepsGone(request[u])'
    <2>1. CASE u = t
      <3>1. ForGood(c)
        BY <1>11, <1>12, <2>1, <1>3, <1>5
      <3>2. capture[c].state = "DISCARDED" /\ capture[c].digits = 0
        BY <3>1, <1>0 DEF DiscardsFit
      <3>3. KeepsGone(q)
        BY <3>2, <1>3, <1>8 DEF KeepsGone
      <3> QED BY <3>3, <2>1, <1>4, <1>5 DEF KeepsGone
    <2>2. CASE u # t
      <3>1. request'[u] = request[u] /\ request[u].of \in Captures
        BY <1>12, <2>2, <1>0, <1>5 DEF CaptureTypes, Idle, AskingRecord, LoadingRecord, WritingRecord
      <3>2. ForGood(request[u].of)
        <4>1. PICK d \in Captures : d = request[u].of
          BY <3>1
        <4>2. ForGood(d)'
          BY <1>12, <3>1, <4>1
        <4> QED BY <4>1, <4>2, <1>11
      <3> QED BY <1>12, <3>1, <3>2, <1>0, <1>4 DEF DiscardsFit, KeepsGone
    <2> QED BY <2>1, <2>2
  <1>13. DiscardsFit'
    BY <1>0, <1>4, <1>11, <1>12 DEF DiscardsFit
  <1> QED BY <1>6, <1>7, <1>10, <1>13 DEF CaptureFits

LEMMA CommitKeepsFit == ASSUME CaptureFits, NEW t \in Tabs, CaptureCommit(t) PROVE CaptureFits'
  <1>0. CaptureTypes /\ RowsFit /\ RequestsFit /\ DiscardsFit
    BY DEF CaptureFits
  <1>1. PICK q \in WritingRecord : q = request[t] /\ q.at = "writing"
    BY <1>0 DEF CaptureCommit, CaptureTypes, Idle, AskingRecord, LoadingRecord, WritingRecord
  <1>2. PICK c \in Captures : c = q.of /\ capture[c].state # "NONE"
    BY <1>0, <1>1 DEF WritingRecord, RequestsFit
  <1>3. PICK r \in RowRecord :
           /\ row' = [row EXCEPT ![c] = r]
           /\ r.state = IF q.is.state = q.was.state THEN row[c].state ELSE q.is.state
           /\ r.digits = IF q.is.digits = q.was.digits THEN row[c].digits ELSE q.is.digits
           /\ r.labelled = IF q.is.labelled = q.was.labelled THEN row[c].labelled ELSE q.is.labelled
           /\ r.matched = IF q.is.matched = q.was.matched THEN row[c].matched ELSE q.is.matched
    <2> DEFINE new == [f \in DOMAIN NoRow |-> IF q.is[f] = q.was[f] THEN row[c][f] ELSE q.is[f]]
    <2>1. q.is \in RowRecord /\ q.was \in RowRecord /\ row[c] \in RowRecord
      BY <1>0 DEF WritingRecord, CaptureTypes
    <2>2. DOMAIN NoRow = {"state", "digits", "count", "labelled", "matched"}
      BY DEF NoRow
    <2>3. new = [state |-> IF q.is.state = q.was.state THEN row[c].state ELSE q.is.state,
                 digits |-> IF q.is.digits = q.was.digits THEN row[c].digits ELSE q.is.digits,
                 count |-> IF q.is.count = q.was.count THEN row[c].count ELSE q.is.count,
                 labelled |-> IF q.is.labelled = q.was.labelled THEN row[c].labelled ELSE q.is.labelled,
                 matched |-> IF q.is.matched = q.was.matched THEN row[c].matched ELSE q.is.matched]
      BY <2>2
    <2>4. row' = [row EXCEPT ![c] = new]
      BY <1>0, <1>1, <1>2 DEF CaptureCommit, CaptureTypes
    <2> HIDE DEF new
    <2>5. new \in RowRecord
      BY <2>1, <2>3 DEF RowRecord
    <2> QED BY <2>3, <2>4, <2>5
  <1>4. /\ UNCHANGED <<capture, open>> /\ request' = [request EXCEPT ![t] = Idle]
        /\ gone' = IF q.gone THEN gone \cup {c} ELSE gone
    BY <1>1, <1>2 DEF CaptureCommit
  <1>5. /\ row'[c] = r /\ \A d \in Captures : d # c => row'[d] = row[d]
        /\ request'[t] = Idle /\ \A u \in Tabs : u # t => request'[u] = request[u]
    BY <1>0, <1>3, <1>4 DEF CaptureTypes
  <1>6. CaptureTypes'
    BY <1>0, <1>3, <1>4 DEF CaptureTypes
  <1>7. WriteFits(q)
    BY <1>0, <1>1 DEF RequestsFit
  <1>8. r.state # "NONE"
    BY <1>2, <1>3, <1>7 DEF WriteFits
  <1>9. StartedInOrder'
    <2>1. PICK n \in 0 .. MaxCaptures : /\ Started = 1 .. n /\ open \in {NoCapture, n}
                                        /\ \A d \in 1 .. n : d # open => row[d].state # "NONE"
      BY DEF CaptureFits, StartedInOrder
    <2>2. ASSUME NEW d \in 1 .. n, d # open PROVE row'[d].state # "NONE"
      <3>1. d \in Captures
        BY CaptureAssumption DEF Captures
      <3>2. row[d].state # "NONE"
        BY <2>1, <2>2
      <3> QED BY <3>1, <3>2, <1>5, <1>8
    <2>3. Started' = Started
      BY <1>4 DEF Started
    <2>4. \A d \in Captures : capture[d].state = "NONE" =>
             /\ row'[d].state = "NONE" /\ capture[d].matched = {} /\ ~capture[d].labelled
      BY <1>2, <1>5 DEF CaptureFits, StartedInOrder
    <2> QED BY <2>1, <2>2, <2>3, <2>4, <1>4 DEF CaptureFits, StartedInOrder
  <1>10. /\ r.labelled => capture[c].labelled
         /\ r.matched \subseteq capture[c].matched
         /\ row[c].labelled => r.labelled
         /\ row[c].matched # {} => r.matched # {}
         /\ q.is.labelled => r.labelled
         /\ q.is.matched # {} => r.matched # {}
    <2>1. /\ row[c].labelled => capture[c].labelled
          /\ row[c].matched \subseteq capture[c].matched
      BY <1>0 DEF RowsFit
    <2>2. /\ q.is.labelled \in BOOLEAN /\ q.was.labelled \in BOOLEAN /\ row[c].labelled \in BOOLEAN
          /\ r.labelled \in BOOLEAN
      BY <1>0 DEF CaptureTypes, WritingRecord, RowRecord
    <2>3. /\ q.is.labelled => capture[c].labelled
          /\ q.was.labelled => q.is.labelled /\ row[c].labelled
      BY <1>2, <1>7 DEF WriteFits
    <2>4. r.labelled = IF q.is.labelled = q.was.labelled THEN row[c].labelled ELSE q.is.labelled
      BY <1>3
    <2>5. /\ r.labelled => capture[c].labelled
          /\ row[c].labelled => r.labelled
          /\ q.is.labelled => r.labelled
      BY <2>1, <2>2, <2>3, <2>4, Zenon
    <2> QED BY <2>1, <2>5, <1>2, <1>3, <1>7 DEF WriteFits
  <1>11. RowsFit'
    <2>1. r.digits > 0 => IsNamed(r)
      BY <1>0, <1>3, <1>7, <1>10 DEF WriteFits, RowsFit, IsNamed
    <2> QED BY <2>1, <1>0, <1>4, <1>5, <1>8, <1>10 DEF RowsFit, IsNamed
  <1>12. RequestsFit'
    <2> SUFFICES ASSUME NEW u \in Tabs, u # t
                 PROVE  /\ request[u].at # "idle" => capture[request[u].of].state # "NONE"
                        /\ request[u].at = "loading" /\ request[u].store =>
                              IsNamed(capture[request[u].of])
                        /\ request[u].at = "writing" => WriteFits(request[u])'
      BY <1>4, <1>5 DEF RequestsFit, Idle, IsNamed, WriteFits
    <2>1. ASSUME request[u].at = "writing" PROVE WriteFits(request[u])'
      <3>1. request'[u] = request[u] /\ request[u].of \in Captures /\ WriteFits(request[u])
        BY <2>1, <1>0, <1>5 DEF CaptureTypes, RequestsFit, Idle, AskingRecord, LoadingRecord, WritingRecord
      <3>2. CASE request[u].of = c
        BY <3>1, <3>2, <1>4, <1>5, <1>8, <1>10 DEF WriteFits, IsNamed
      <3>3. CASE request[u].of # c
        BY <3>1, <3>3, <1>4, <1>5 DEF WriteFits, IsNamed
      <3> QED BY <3>2, <3>3
    <2> QED BY <2>1, <1>0 DEF RequestsFit
  <1>13. \A d \in Captures : ForGood(d)' => ForGood(d)
    BY <1>1, <1>2, <1>4, <1>5 DEF ForGood, Idle
  <1>14. ForGood(c) => /\ row[c].state = "DISCARDED" => r.state = "DISCARDED"
                       /\ row[c].digits = 0 => r.digits = 0
                       /\ r.state = "DISCARDED" /\ r.digits = 0
    <2> SUFFICES ASSUME ForGood(c) PROVE r.state = "DISCARDED" /\ r.digits = 0
      OBVIOUS
    <2>1. KeepsGone(q)
      BY <1>0, <1>1, <1>2 DEF DiscardsFit
    <2> QED BY <2>1, <1>2, <1>3 DEF KeepsGone
  <1>15. q.gone => ForGood(c)
    BY <1>1, <1>2 DEF ForGood
  <1>16. \A d \in gone' : row'[d].state = "DISCARDED" /\ row'[d].digits = 0
    <2> SUFFICES ASSUME NEW d \in gone' PROVE row'[d].state = "DISCARDED" /\ row'[d].digits = 0
      OBVIOUS
    <2>1. CASE d = c
      <3>1. ForGood(c)
        BY <2>1, <1>4, <1>15 DEF ForGood
      <3> QED BY <3>1, <2>1, <1>5, <1>14
    <2>2. CASE d # c
      BY <2>2, <1>0, <1>4, <1>5 DEF DiscardsFit, CaptureTypes
    <2> QED BY <2>1, <2>2
  <1>17. ASSUME NEW u \in Tabs, request'[u].at = "writing", ForGood(request[u].of)'
         PROVE  KeepsGone(request[u])'
    <2>1. u # t
      BY <1>5, <1>17 DEF Idle
    <2>2. request'[u] = request[u] /\ request[u].of \in Captures
      BY <1>17, <2>1, <1>0, <1>5 DEF CaptureTypes, Idle, AskingRecord, LoadingRecord, WritingRecord
    <2>3. PICK d \in Captures : d = request[u].of
      BY <2>2
    <2>4. ForGood(d)
      <3>1. ForGood(d)'
        BY <1>17, <2>2, <2>3
      <3> QED BY <3>1, <1>13
    <2>5. KeepsGone(request[u])
      BY <1>17, <2>2, <2>3, <2>4, <1>0 DEF DiscardsFit
    <2>6. /\ row[d].state = "DISCARDED" => row'[d].state = "DISCARDED"
          /\ row[d].digits = 0 => row'[d].digits = 0
      BY <2>4, <1>5, <1>14
    <2> QED BY <2>2, <2>3, <2>5, <2>6 DEF KeepsGone
  <1>18. DiscardsFit'
    BY <1>0, <1>4, <1>13, <1>16, <1>17 DEF DiscardsFit
  <1> QED BY <1>6, <1>9, <1>11, <1>12, <1>18 DEF CaptureFits

LEMMA RestartKeepsFit == ASSUME CaptureFits, CaptureRestart PROVE CaptureFits'
  <1>0. CaptureTypes /\ RowsFit /\ DiscardsFit
    BY DEF CaptureFits
  <1>1. /\ capture' = [c \in Captures |-> Restored(row[c])] /\ open' = NoCapture
        /\ request' = [t \in Tabs |-> Idle] /\ UNCHANGED <<row, gone>>
    BY DEF CaptureRestart
  <1>2. \A c \in Captures : /\ Restored(row[c]) \in CaptureRecord
                            /\ capture'[c] = Restored(row[c])
    <2>1. \A c \in Captures : Restored(row[c]) \in CaptureRecord
      BY <1>0 DEF CaptureTypes, RowRecord, CaptureRecord, Restored, CaptureState
    <2> QED BY <2>1, <1>1
  <1>3. CaptureTypes'
    BY <1>0, <1>1, <1>2 DEF CaptureTypes
  <1>4. \A c \in Captures : /\ capture'[c].state = "NONE" <=> row[c].state = "NONE"
                            /\ row[c].state = "DISCARDED" => capture'[c].state = "DISCARDED"
                            /\ capture'[c].labelled = row[c].labelled
                            /\ capture'[c].matched = row[c].matched
                            /\ capture'[c].digits = row[c].digits
    <2> TAKE c \in Captures
    <2>1. capture'[c] = [state |-> IF row[c].state = "OPEN" THEN "STOPPED" ELSE row[c].state,
                         digits |-> row[c].digits, labelled |-> row[c].labelled, matched |-> row[c].matched]
      BY <1>2, Zenon DEF Restored
    <2>2. /\ capture'[c].state = IF row[c].state = "OPEN" THEN "STOPPED" ELSE row[c].state
          /\ capture'[c].digits = row[c].digits /\ capture'[c].matched = row[c].matched
      BY <2>1
    <2>3. capture'[c].labelled = row[c].labelled
      <3> DEFINE named == row[c].labelled
      <3>1. \E st, n, m : capture'[c] = [state |-> st, digits |-> n, labelled |-> named, matched |-> m]
        BY <2>1, Zenon
      <3> HIDE DEF named
      <3>2. capture'[c].labelled = named
        BY <3>1
      <3> QED BY <3>2, Zenon DEF named
    <2> QED BY <2>2, <2>3
  <1>5. StartedInOrder'
    <2>1. PICK n \in 0 .. MaxCaptures : /\ Started = 1 .. n /\ open \in {NoCapture, n}
                                        /\ \A d \in 1 .. n : d # open => row[d].state # "NONE"
      BY DEF CaptureFits, StartedInOrder
    <2>2. \A d \in Captures : row[d].state # "NONE" => d \in 1 .. n
      BY <2>1 DEF CaptureFits, StartedInOrder, Started
    <2>3. Started' = {d \in Captures : row[d].state # "NONE"}
      BY <1>4 DEF Started
    <2>4. \E m \in 0 .. MaxCaptures : Started' = 1 .. m
      <3>0. n \in Nat /\ MaxCaptures \in Nat /\ n <= MaxCaptures
        BY CaptureAssumption
      <3>1. CASE open = n /\ n # 0 /\ row[n].state = "NONE"
        <4>1. n - 1 \in 0 .. MaxCaptures
          BY <3>0, <3>1
        <4>2. \A d \in Captures : row[d].state # "NONE" <=> d \in 1 .. n - 1
          <5> TAKE d \in Captures
          <5>1. d \in Nat /\ d >= 1 /\ (d = n => row[d].state = "NONE")
            BY <3>1 DEF Captures
          <5>2. d \in 1 .. n /\ d # n => row[d].state # "NONE"
            BY <2>1, <3>1
          <5> QED BY <5>1, <5>2, <2>2, <3>0
        <4>3. {d \in Captures : row[d].state # "NONE"} = 1 .. n - 1
          <5>1. 1 .. n - 1 \subseteq Captures
            BY <3>0 DEF Captures
          <5> QED BY <4>2, <5>1
        <4> QED BY <4>1, <4>3, <2>3
      <3>2. CASE ~(open = n /\ n # 0 /\ row[n].state = "NONE")
        <4>1. \A d \in 1 .. n : row[d].state # "NONE"
          BY <2>1, <3>0, <3>2 DEF NoCapture
        <4>2. 1 .. n \subseteq Captures
          BY <3>0 DEF Captures
        <4>3. {d \in Captures : row[d].state # "NONE"} = 1 .. n
          BY <4>1, <4>2, <2>2
        <4> QED BY <4>3, <2>3
      <3> QED BY <3>1, <3>2
    <2>5. PICK m \in 0 .. MaxCaptures : Started' = 1 .. m
      BY <2>4
    <2>6. \A d \in 1 .. m : d # open' => row'[d].state # "NONE"
      BY <2>3, <2>5, <1>1
    <2>7. \A d \in Captures : capture'[d].state = "NONE" =>
             /\ row'[d].state = "NONE" /\ capture'[d].matched = {} /\ ~capture'[d].labelled
      BY <1>0, <1>1, <1>4 DEF RowsFit, IsNamed
    <2> QED BY <2>5, <2>6, <2>7, <1>1 DEF StartedInOrder
  <1>6. RowsFit'
    BY <1>0, <1>1, <1>4 DEF RowsFit, IsNamed
  <1>7. \A t \in Tabs : request'[t].at = "idle"
    BY <1>1 DEF Idle
  <1>8. RequestsFit'
    BY <1>7 DEF RequestsFit
  <1>9. \A c \in Captures : ForGood(c)' => c \in gone
    BY <1>1, <1>7 DEF ForGood
  <1>10. DiscardsFit'
    BY <1>0, <1>1, <1>4, <1>7, <1>9 DEF DiscardsFit
  <1> QED BY <1>3, <1>5, <1>6, <1>8, <1>10 DEF CaptureFits

CaptureNext == CaptureRestart \/ \E t \in Tabs : CaptureStep(t)

LEMMA CaptureFitsStep == CaptureFits /\ [CaptureNext]_captureVars => CaptureFits'
  <1> SUFFICES ASSUME CaptureFits, [CaptureNext]_captureVars PROVE CaptureFits'
    OBVIOUS
  <1>0. CaptureTypes
    BY DEF CaptureFits
  <1>1. ASSUME NEW t \in Tabs, CaptureKey(t) \/ CaptureBackspace(t) PROVE CaptureFits'
    <2>1. Shown(open) /\ open \in Captures
      BY <1>0, <1>1 DEF CaptureKey, CaptureBackspace, Shown, CaptureTypes
    <2>2. capture[open].digits \in Nat
      BY <1>0, <2>1 DEF CaptureTypes, CaptureRecord
    <2>3. PICK n \in Nat : capture' = [capture EXCEPT ![open].digits = n]
      <3>1. CASE CaptureKey(t)
        <4>1. capture[open].digits + 1 \in Nat
          BY <2>2
        <4>2. capture' = [capture EXCEPT ![open].digits = capture[open].digits + 1]
          BY <3>1, <1>0, <2>1 DEF CaptureKey, CaptureTypes
        <4> QED BY <4>1, <4>2
      <3>2. CASE CaptureBackspace(t)
        <4>1. capture[open].digits - 1 \in Nat
          BY <3>2, <2>2 DEF CaptureBackspace
        <4>2. capture' = [capture EXCEPT ![open].digits = capture[open].digits - 1]
          BY <3>2, <1>0, <2>1 DEF CaptureBackspace, CaptureTypes
        <4> QED BY <4>1, <4>2
      <3> QED BY <1>1, <3>1, <3>2
    <2>4. UNCHANGED <<open, row, request, gone>>
      BY <1>1 DEF CaptureKey, CaptureBackspace
    <2> QED BY <2>1, <2>3, <2>4, KeyingKeepsFit
  <1>2. ASSUME NEW t \in Tabs, CaptureStop(t) PROVE CaptureFits'
    <2>1. PICK c \in Captures : c = open /\ capture[c].state = "OPEN" /\ row[c].state # "NONE"
      BY <1>0, <1>2 DEF CaptureStop, Shown, CaptureTypes, CaptureFits, StartedInOrder
    <2>2. PICK k \in CaptureRecord : /\ k = [capture[c] EXCEPT !.state = "STOPPED"] /\ k.state = "STOPPED"
                                     /\ k.labelled = capture[c].labelled /\ k.matched = capture[c].matched
      <3>1. capture[c] \in CaptureRecord
        BY <1>0 DEF CaptureTypes
      <3>2. [capture[c] EXCEPT !.state = "STOPPED"] \in CaptureRecord
        BY <3>1 DEF CaptureRecord, CaptureState
      <3> QED BY <3>1, <3>2 DEF CaptureRecord
    <2>3. /\ Becomes(t, c, k) /\ open' = NoCapture /\ UNCHANGED <<row, gone>>
          /\ request[t].at \notin {"loading", "writing"}
      BY <1>2, <2>1, <2>2 DEF CaptureStop, Idle
    <2> QED BY <2>1, <2>2, <2>3, ChangeKeepsFit
  <1>3. ASSUME NEW t \in Tabs, CaptureDiscard(t) PROVE CaptureFits'
    <2>1. PICK c \in Captures : /\ c = Latest /\ capture[c].state # "NONE"
                                /\ open # NoCapture => row[open].state # "NONE"
      BY <1>3, LatestIsStarted DEF CaptureDiscard
    <2>2. PICK k \in CaptureRecord : /\ k = [capture[c] EXCEPT !.state = "DISCARDED", !.digits = 0]
                                     /\ k.state = "DISCARDED" /\ k.digits = 0
                                     /\ k.labelled = capture[c].labelled /\ k.matched = capture[c].matched
      <3>1. capture[c] \in CaptureRecord
        BY <1>0 DEF CaptureTypes
      <3>2. [capture[c] EXCEPT !.state = "DISCARDED", !.digits = 0] \in CaptureRecord
        BY <3>1 DEF CaptureRecord, CaptureState
      <3> QED BY <3>1, <3>2 DEF CaptureRecord
    <2>3. /\ Becomes(t, c, k) /\ open' = NoCapture /\ UNCHANGED <<row, gone>>
          /\ request[t].at \notin {"loading", "writing"}
      BY <1>3, <2>1, <2>2 DEF CaptureDiscard, Idle
    <2> QED BY <2>1, <2>2, <2>3, ChangeKeepsFit
  <1>4. ASSUME NEW t \in Tabs, CaptureLabel(t) PROVE CaptureFits'
    <2>1. PICK c \in Captures : c = Latest /\ capture[c].state # "NONE"
      BY <1>4, LatestIsStarted DEF CaptureLabel
    <2>2. PICK k \in CaptureRecord : /\ k = [capture[c] EXCEPT !.labelled = TRUE] /\ k.labelled
                                     /\ k.state = capture[c].state /\ k.digits = capture[c].digits
                                     /\ k.matched = capture[c].matched
      <3>1. capture[c] \in CaptureRecord
        BY <1>0 DEF CaptureTypes
      <3>2. [capture[c] EXCEPT !.labelled = TRUE] \in CaptureRecord
        BY <3>1 DEF CaptureRecord, CaptureState
      <3> QED BY <3>1, <3>2 DEF CaptureRecord
    <2>3. /\ Becomes(t, c, k) /\ UNCHANGED <<open, row, gone>>
          /\ request[t].at \notin {"loading", "writing"}
      BY <1>4, <2>1, <2>2 DEF CaptureLabel, Idle
    <2> QED BY <2>1, <2>2, <2>3, ChangeKeepsFit
  <1>5. ASSUME NEW t \in Tabs, CaptureRecordLookup(t) PROVE CaptureFits'
    <2>1. request[t].at = "asking" /\ request[t] \in AskingRecord /\ UNCHANGED <<open, row, gone>>
      BY <1>0, <1>5 DEF CaptureRecordLookup, CaptureTypes, Idle, AskingRecord, LoadingRecord, WritingRecord
    <2>2. PICK c \in Captures : c = request[t].of /\ capture[c].state # "NONE"
      BY <2>1 DEF AskingRecord, CaptureFits, RequestsFit
    <2>3. PICK k \in CaptureRecord : /\ Becomes(t, c, k) /\ k.state = capture[c].state
                                     /\ k.digits = capture[c].digits /\ k.labelled = capture[c].labelled
                                     /\ capture[c].matched \subseteq k.matched
      <3>1. capture[c] \in CaptureRecord /\ request[t].kind \in LookupKind
        BY <1>0, <2>1 DEF CaptureTypes, AskingRecord
      <3>2. [capture[c] EXCEPT !.matched = @ \cup {request[t].kind}] \in CaptureRecord
        BY <3>1 DEF CaptureRecord
      <3>3. \/ Becomes(t, c, capture[c])
            \/ Becomes(t, c, [capture[c] EXCEPT !.matched = @ \cup {request[t].kind}])
        BY <1>5, <2>2 DEF CaptureRecordLookup
      <3> QED BY <3>1, <3>2, <3>3 DEF CaptureRecord
    <2> QED BY <2>1, <2>2, <2>3, ChangeKeepsFit
  <1>6. CASE UNCHANGED captureVars
    BY <1>6 DEF captureVars, CaptureFits, CaptureTypes, StartedInOrder, RowsFit, RequestsFit, DiscardsFit,
                Started, IsNamed, WriteFits, ForGood, KeepsGone
  <1> QED BY <1>1, <1>2, <1>3, <1>4, <1>5, <1>6, StartKeepsFit, LookupKeepsFit, LoadKeepsFit, CommitKeepsFit,
             RestartKeepsFit DEF CaptureNext, CaptureStep

\* Digits are kept only where somebody wants them, for any number of tabs,
\* captures and restarts (KeypadCaptureService and its rows).
THEOREM DigitsAreKeptOnlyIfWanted == Spec => []OnlyWantedDigitsAreKept
  <1>1. [Next]_vars => [CaptureNext]_captureVars
    BY DEF Next, vars, captureVars, CaptureNext
  <1>2. CaptureFits => OnlyWantedDigitsAreKept
    BY DEF CaptureFits, CaptureTypes, RowsFit, DiscardsFit, ForGood, IsNamed, OnlyWantedDigitsAreKept
  <1> QED BY <1>1, <1>2, CaptureFitsInit, CaptureFitsStep, PTL DEF Spec

-----------------------------------------------------------------------------
(* The agent's own calls.                                                  *)

HandOffs == {NoHandOff} \cup [reason : Reason, to : Insurer \cup {FromPolicy}]

MyCallRecord ==
    [state : {"MATCHED", "OFFERED", "IN_CALL", "WRAP_UP", "CLOSED", "ABANDONED"},
     policy : BOOLEAN, handed : HandOffs, filed : BOOLEAN]

OfferRecord ==
    [call : MyCalls, outcome : {"pending", "accepted", "over"}, acw : {"none", "running", "ended"}]

RecordTypes ==
    /\ mine \in [MyCalls -> MyCallRecord] /\ offers \in Seq(OfferRecord) /\ ended \in Seq(Nat)
    /\ duty \in {"free", "ringing", "talking", "wrapping"}

\* Refused or withdrawn, or taken and closed out.
Settled(i) ==
    /\ offers[i].outcome = "over" => offers[i].acw = "none"
    /\ offers[i].outcome # "over" =>
          /\ offers[i].outcome = "accepted" /\ offers[i].acw = "ended"
          /\ mine[offers[i].call].state = "CLOSED"

\* All but the last offer are settled, and what the desk does is what the last is at.
OffersFit ==
    /\ \A i \in 1 .. Len(offers) : i # Len(offers) \/ duty = "free" => Settled(i)
    /\ duty # "free" =>
          /\ offers # <<>>
          /\ LET o == offers[Len(offers)]
                 is == mine[o.call]
             IN \/ duty = "ringing" /\ o.outcome = "pending" /\ o.acw = "none" /\ is.state = "OFFERED"
                \/ duty = "talking" /\ o.outcome = "accepted" /\ o.acw = "none" /\ is.state = "IN_CALL"
                \/ /\ duty = "wrapping" /\ o.outcome = "accepted" /\ o.acw = "running"
                   /\ is.state = "WRAP_UP" \/ (is.state = "CLOSED" /\ is.filed)

\* A call is held by one offer at most, and rings only here and now.
HeldOnce ==
    /\ \A i, j \in 1 .. Len(offers) :
          /\ offers[i].outcome # "over" /\ offers[j].outcome # "over"
          /\ offers[i].call = offers[j].call
          => i = j
    /\ \A c \in MyCalls : mine[c].state = "OFFERED" =>
          duty = "ringing" /\ offers[Len(offers)].call = c

\* What has an acw_started_at is an offer, and after-call work that goes on has one.
StampsFit ==
    /\ \A k \in 1 .. Len(ended) : ended[k] \in 1 .. Len(offers)
    /\ duty = "wrapping" => \E k \in 1 .. Len(ended) : ended[k] = Len(offers)

HandedFits ==
    \A c \in MyCalls :
        mine[c].handed # NoHandOff /\ pack.needs[mine[c].handed.reason] => mine[c].policy

RecordFits == RecordTypes /\ OffersFit /\ HeldOnce /\ StampsFit /\ HandedFits

\* The position a stamped offer had is closed, and it is the last.
LEMMA StampedIs ==
    ASSUME ended \in Seq(Nat), NEW i \in Nat
    PROVE  /\ Stamped(i) \in Seq(Nat)
           /\ Len(Stamped(i)) > 0 /\ Stamped(i)[Len(Stamped(i))] = i
           /\ \A k \in 1 .. Len(Stamped(i)) :
                  Stamped(i)[k] = i \/ \E j \in 1 .. Len(ended) : Stamped(i)[k] = ended[j]
           /\ \A j \in 1 .. Len(ended) : ended[j] # i =>
                  \E k \in 1 .. Len(Stamped(i)) : Stamped(i)[k] = ended[j]
  <1> DEFINE rest == RemoveFirst(ended, i)
  <1>1. /\ rest \in Seq(Nat)
        /\ \A k \in 1 .. Len(rest) : \E j \in 1 .. Len(ended) : rest[k] = ended[j]
        /\ \A j \in 1 .. Len(ended) : ended[j] # i => \E k \in 1 .. Len(rest) : rest[k] = ended[j]
    <2>1. CASE ~\E j \in 1 .. Len(ended) : ended[j] = i
      <3>1. rest = ended
        BY <2>1 DEF RemoveFirst
      <3> HIDE DEF rest
      <3> QED BY <3>1
    <2>2. CASE \E j \in 1 .. Len(ended) : ended[j] = i
      <3> DEFINE at == {j \in 1 .. Len(ended) : ended[j] = i}
      <3>1. Min(at) \in at
        <4>1. at \in SUBSET Nat /\ at # {}
          BY <2>2
        <4> HIDE DEF at
        <4> QED BY <4>1, LeastIs
      <3>2. PICK p \in 1 .. Len(ended) : p = Min(at) /\ ended[p] = i
        BY <3>1
      <3>3. rest = SubSeq(ended, 1, p - 1) \o SubSeq(ended, p + 1, Len(ended))
        BY <2>2, <3>2 DEF RemoveFirst, RemoveAt, SelectInSeq
      <3> HIDE DEF rest, at
      <3> DEFINE front == SubSeq(ended, 1, p - 1)
                 back == SubSeq(ended, p + 1, Len(ended))
      <3>4. /\ front \in Seq(Nat) /\ Len(front) = p - 1
            /\ \A k \in 1 .. p - 1 : front[k] = ended[k]
        BY SubSeqProperties
      <3>5. /\ back \in Seq(Nat) /\ Len(back) = Len(ended) - p
            /\ \A k \in 1 .. Len(ended) - p : back[k] = ended[k + p]
        BY SubSeqProperties
      <3> HIDE DEF front, back
      <3>6. /\ rest \in Seq(Nat) /\ Len(rest) = Len(ended) - 1
            /\ \A k \in 1 .. Len(rest) : rest[k] = IF k < p THEN ended[k] ELSE ended[k + 1]
        <4>1. rest = front \o back
          BY <3>3 DEF front, back
        <4>2. front \in Seq(Nat) /\ back \in Seq(Nat)
          BY <3>4, <3>5
        <4>3. /\ rest \in Seq(Nat) /\ Len(rest) = Len(front) + Len(back)
              /\ \A k \in 1 .. Len(front) + Len(back) :
                     rest[k] = IF k <= Len(front) THEN front[k] ELSE back[k - Len(front)]
          BY <4>1, <4>2, ConcatProperties
        <4>5. Len(rest) = Len(ended) - 1
          BY <4>3, <3>4, <3>5
        <4>4. \A k \in 1 .. Len(rest) : rest[k] = IF k < p THEN ended[k] ELSE ended[k + 1]
          <5> TAKE k \in 1 .. Len(rest)
          <5>1. CASE k < p
            BY <5>1, <4>3, <4>5, <3>4, <3>5
          <5>2. CASE ~(k < p)
            <6>1. k - (p - 1) \in 1 .. Len(ended) - p
              BY <5>2, <4>5
            <6>2. back[k - (p - 1)] = ended[(k - (p - 1)) + p]
              BY <6>1, <3>5
            <6>3. (k - (p - 1)) + p = k + 1
              OBVIOUS
            <6> QED BY <5>2, <6>2, <6>3, <4>3, <4>5, <3>4, <3>5
          <5> QED BY <5>1, <5>2
        <4> QED BY <4>3, <4>5, <4>4
      <3>7. \A k \in 1 .. Len(rest) : \E j \in 1 .. Len(ended) : rest[k] = ended[j]
        <4> TAKE k \in 1 .. Len(rest)
        <4>1. k \in 1 .. Len(ended) /\ k + 1 \in 1 .. Len(ended)
          BY <3>6
        <4> QED BY <4>1, <3>6
      <3>8. ASSUME NEW j \in 1 .. Len(ended), ended[j] # i
            PROVE  \E k \in 1 .. Len(rest) : rest[k] = ended[j]
        <4>1. j # p
          BY <3>2, <3>8
        <4>2. CASE j < p
          <5>1. j \in 1 .. Len(rest) /\ rest[j] = ended[j]
            BY <4>2, <3>6
          <5> QED BY <5>1
        <4>3. CASE j > p
          <5>1. j - 1 \in 1 .. Len(rest) /\ rest[j - 1] = ended[(j - 1) + 1]
            BY <4>3, <3>6
          <5>2. (j - 1) + 1 = j
            OBVIOUS
          <5> QED BY <5>1, <5>2
        <4> QED BY <4>1, <4>2, <4>3
      <3> QED BY <3>6, <3>7, <3>8
    <2> QED BY <2>1, <2>2
  <1>2. Stamped(i) = Append(rest, i)
    BY DEF Stamped
  <1> HIDE DEF rest
  <1>3. /\ Stamped(i) \in Seq(Nat) /\ Len(Stamped(i)) = Len(rest) + 1
        /\ Stamped(i)[Len(rest) + 1] = i
        /\ \A k \in 1 .. Len(rest) : Stamped(i)[k] = rest[k]
    BY <1>1, <1>2
  <1>4. \A k \in 1 .. Len(Stamped(i)) : k = Len(rest) + 1 \/ k \in 1 .. Len(rest)
    BY <1>1, <1>3
  <1>5. \A k \in 1 .. Len(rest) : k \in 1 .. Len(Stamped(i))
    BY <1>1, <1>3
  <1>6. \A k \in 1 .. Len(Stamped(i)) :
           Stamped(i)[k] = i \/ \E j \in 1 .. Len(ended) : Stamped(i)[k] = ended[j]
    BY <1>1, <1>3, <1>4
  <1>7. \A j \in 1 .. Len(ended) : ended[j] # i =>
           \E k \in 1 .. Len(Stamped(i)) : Stamped(i)[k] = ended[j]
    BY <1>1, <1>3, <1>5
  <1> QED BY <1>1, <1>3, <1>6, <1>7

LEMMA NewestIs ==
    ASSUME NEW n \in Nat, NEW S \in SUBSET (1 .. n)
    PROVE  /\ S = {} => Newest(S) = 0
           /\ S # {} => Newest(S) \in S /\ \A x \in S : Newest(S) >= x
  <1>1. S \in SUBSET (0 .. n)
    OBVIOUS
  <1> QED BY <1>1, GreatestIs DEF Newest

LEMMA AssignmentIs ==
    ASSUME RecordTypes, NEW c \in MyCalls
    PROVE  /\ StillHeld(c) = {j \in 1 .. Len(offers) : offers[j].call = c /\ offers[j].outcome # "over"}
           /\ AssignmentFor(c) # 0 => AssignmentFor(c) \in StillHeld(c)
           /\ AssignmentFor(c) = 0 => StillHeld(c) = {}
  <1>1. Len(offers) \in Nat /\ DOMAIN offers = 1 .. Len(offers)
    BY DEF RecordTypes
  <1>2. StillHeld(c) = {j \in 1 .. Len(offers) : offers[j].call = c /\ offers[j].outcome # "over"}
    BY <1>1 DEF StillHeld
  <1>3. StillHeld(c) \in SUBSET (1 .. Len(offers)) /\ 0 \notin StillHeld(c)
    BY <1>2
  <1> QED BY <1>1, <1>2, <1>3, NewestIs DEF AssignmentFor

LEMMA LatestIsLast ==
    ASSUME RecordFits, duty = "wrapping"
    PROVE  LatestWrapping = Len(offers) /\ Len(offers) \in 1 .. Len(offers)
  <1>1. /\ Len(offers) \in Nat /\ Len(ended) \in Nat /\ DOMAIN ended = 1 .. Len(ended)
        /\ Len(offers) \in 1 .. Len(offers) /\ offers[Len(offers)].acw = "running"
    BY DEF RecordFits, RecordTypes, OffersFit
  <1>2. \A j \in 1 .. Len(offers) : Wraps(j) => j = Len(offers)
    BY <1>1 DEF RecordFits, OffersFit, Settled, Wraps
  <1> DEFINE S == {k \in DOMAIN ended : Wraps(ended[k])}
  <1>3. S \in SUBSET (1 .. Len(ended)) /\ S # {}
    BY <1>1 DEF RecordFits, StampsFit, Wraps
  <1>4. Newest(S) \in S
    BY <1>1, <1>3, NewestIs
  <1>5. Newest(S) # 0 /\ ended[Newest(S)] = Len(offers)
    BY <1>1, <1>2, <1>4 DEF RecordFits, StampsFit
  <1> QED BY <1>1, <1>5 DEF LatestWrapping

LEMMA RecordFitsInit == Init => RecordFits
  <1> SUFFICES ASSUME RecordInit \/ NoRecord PROVE RecordFits
    BY DEF Init
  <1>1. /\ offers = <<>> /\ ended = <<>> /\ duty = "free"
        /\ mine \in [MyCalls -> {Waits} \cup {[Waits EXCEPT !.policy = b] : b \in BOOLEAN}]
    BY DEF RecordInit, NoRecord
  <1>2. ASSUME NEW m \in {Waits} \cup {[Waits EXCEPT !.policy = b] : b \in BOOLEAN}
        PROVE  m \in MyCallRecord /\ m.state = "MATCHED" /\ m.handed = NoHandOff
    <2>1. PICK b \in BOOLEAN : m = [state |-> "MATCHED", policy |-> b, handed |-> NoHandOff, filed |-> FALSE]
      BY DEF Waits
    <2> QED BY <2>1 DEF MyCallRecord, HandOffs
  <1>3. \A c \in MyCalls : /\ mine[c] \in MyCallRecord /\ mine[c].state = "MATCHED"
                           /\ mine[c].handed = NoHandOff
    BY <1>1, <1>2
  <1>4. mine \in [MyCalls -> MyCallRecord]
    BY <1>1, <1>3
  <1>5. Len(offers) = 0 /\ Len(ended) = 0 /\ offers \in Seq(OfferRecord) /\ ended \in Seq(Nat)
    BY <1>1
  <1> QED BY <1>1, <1>3, <1>4, <1>5 DEF RecordFits, RecordTypes, OffersFit, HeldOnce, StampsFit, HandedFits

\* A call's record changes without its policy or what was handed over.
LEMMA MineIs ==
    ASSUME RecordTypes, NEW c \in MyCalls, NEW m \in MyCallRecord, mine' = [mine EXCEPT ![c] = m]
    PROVE  /\ mine' \in [MyCalls -> MyCallRecord] /\ mine'[c] = m
           /\ \A d \in MyCalls : d # c => mine'[d] = mine[d]
  BY DEF RecordTypes

LEMMA RingKeepsRecord == ASSUME RecordFits, NEW c \in MyCalls, Ring(c) PROVE RecordFits'
  <1>0. RecordTypes
    BY DEF RecordFits
  <1>1. /\ duty = "free" /\ mine[c].state = "MATCHED" /\ duty' = "ringing"
        /\ offers' = Append(offers, [call |-> c, outcome |-> "pending", acw |-> "none"])
        /\ UNCHANGED <<ended, pack>>
    BY DEF Ring
  <1>2. PICK m \in MyCallRecord : /\ mine' = [mine EXCEPT ![c] = m] /\ m.state = "OFFERED"
                                  /\ m.handed = mine[c].handed /\ m.policy = mine[c].policy
    <2>1. [mine[c] EXCEPT !.state = "OFFERED"] \in MyCallRecord
      BY <1>0 DEF RecordTypes, MyCallRecord
    <2> QED BY <2>1, <1>0 DEF Ring, RecordTypes, MyCallRecord
  <1>3. PICK o \in OfferRecord : /\ offers' = Append(offers, o) /\ o.call = c
                                 /\ o.outcome = "pending" /\ o.acw = "none"
    <2>1. [call |-> c, outcome |-> "pending", acw |-> "none"] \in OfferRecord
      BY DEF OfferRecord
    <2> QED BY <1>1, <2>1
  <1>4. /\ mine' \in [MyCalls -> MyCallRecord] /\ mine'[c] = m
        /\ \A d \in MyCalls : d # c => mine'[d] = mine[d]
    BY <1>0, <1>2, MineIs
  <1>5. /\ offers' \in Seq(OfferRecord) /\ Len(offers') = Len(offers) + 1 /\ Len(offers) \in Nat
        /\ offers'[Len(offers')] = o /\ offers' # <<>>
        /\ \A i \in 1 .. Len(offers) : offers'[i] = offers[i] /\ offers[i] \in OfferRecord
    BY <1>0, <1>3 DEF RecordTypes
  <1>6. RecordTypes'
    BY <1>0, <1>1, <1>4, <1>5 DEF RecordTypes
  <1>7. \A i \in 1 .. Len(offers) : Settled(i) /\ (offers[i].outcome # "over" => offers[i].call # c)
    BY <1>1 DEF RecordFits, OffersFit, Settled
  <1>8. \A i \in 1 .. Len(offers) : Settled(i)'
    BY <1>4, <1>5, <1>7 DEF Settled, OfferRecord
  <1>9. \A i \in 1 .. Len(offers') : i = Len(offers') \/ i \in 1 .. Len(offers)
    BY <1>5
  <1>10. OffersFit'
    BY <1>1, <1>2, <1>3, <1>4, <1>5, <1>8, <1>9 DEF OffersFit
  <1>11. HeldOnce'
    <2>1. \A i, j \in 1 .. Len(offers') :
             /\ offers'[i].outcome # "over" /\ offers'[j].outcome # "over"
             /\ offers'[i].call = offers'[j].call
             => i = j
      BY <1>3, <1>5, <1>7, <1>9 DEF RecordFits, HeldOnce
    <2>2. \A d \in MyCalls : mine'[d].state = "OFFERED" => d = c
      BY <1>1, <1>4 DEF RecordFits, HeldOnce
    <2> QED BY <2>1, <2>2, <1>1, <1>3, <1>5 DEF HeldOnce
  <1>12. StampsFit'
    BY <1>1, <1>5 DEF RecordFits, StampsFit
  <1>13. HandedFits'
    BY <1>1, <1>2, <1>4 DEF RecordFits, HandedFits
  <1> QED BY <1>6, <1>10, <1>11, <1>12, <1>13 DEF RecordFits

LEMMA RingEndsKeepsRecord ==
    ASSUME RecordFits, NEW c \in MyCalls, PickedUp(c) \/ Declined(c) \/ GivenUp(c)
    PROVE  RecordFits'
  <1>0. RecordTypes
    BY DEF RecordFits
  <1>1. PICK st \in {"IN_CALL", "MATCHED", "ABANDONED"}, out \in {"accepted", "over"}, next \in {"talking", "free"} :
           /\ RingEnds(c, st, out, next)
           /\ \/ st = "IN_CALL" /\ out = "accepted" /\ next = "talking"
              \/ out = "over" /\ next = "free"
    BY DEF PickedUp, Declined, GivenUp
  <1>2. /\ mine[c].state = "OFFERED" /\ duty' = next /\ UNCHANGED <<ended, pack>>
    BY <1>1 DEF RingEnds
  <1>3. /\ duty = "ringing" /\ Len(offers) \in 1 .. Len(offers) /\ offers[Len(offers)].call = c
        /\ offers[Len(offers)].outcome = "pending" /\ offers[Len(offers)].acw = "none"
        /\ \A i \in 1 .. Len(offers) : offers[i] \in OfferRecord
    BY <1>0, <1>2 DEF RecordTypes, RecordFits, HeldOnce, OffersFit
  <1>4. PICK m \in MyCallRecord : /\ mine' = [mine EXCEPT ![c] = m] /\ m.state = st
                                  /\ m.handed = mine[c].handed /\ m.policy = mine[c].policy
    <2>1. [mine[c] EXCEPT !.state = st] \in MyCallRecord
      BY <1>0 DEF RecordTypes, MyCallRecord
    <2> QED BY <2>1, <1>0, <1>1 DEF RingEnds, RecordTypes, MyCallRecord
  <1>5. PICK o \in OfferRecord : /\ offers' = [offers EXCEPT ![Len(offers)] = o] /\ o.call = c
                                 /\ o.outcome = out /\ o.acw = "none"
    <2>1. [offers[Len(offers)] EXCEPT !.outcome = out] \in OfferRecord
      BY <1>3 DEF OfferRecord
    <2> QED BY <2>1, <1>1, <1>3 DEF RingEnds, OfferRecord
  <1>6. /\ mine' \in [MyCalls -> MyCallRecord] /\ mine'[c] = m
        /\ \A d \in MyCalls : d # c => mine'[d] = mine[d]
    BY <1>0, <1>4, MineIs
  <1>7. /\ offers' \in Seq(OfferRecord) /\ Len(offers') = Len(offers)
        /\ offers'[Len(offers)] = o /\ offers' # <<>>
        /\ \A i \in 1 .. Len(offers) : i # Len(offers) => offers'[i] = offers[i]
    BY <1>0, <1>3, <1>5 DEF RecordTypes
  <1>8. RecordTypes'
    BY <1>0, <1>2, <1>6, <1>7 DEF RecordTypes
  <1>9. \A i \in 1 .. Len(offers) : i # Len(offers) =>
           Settled(i) /\ (offers[i].outcome # "over" => offers[i].call # c)
    BY <1>2 DEF RecordFits, OffersFit, Settled
  <1>10. \A i \in 1 .. Len(offers) : i # Len(offers) => Settled(i)'
    BY <1>3, <1>6, <1>7, <1>9 DEF Settled, OfferRecord
  <1>11. OffersFit'
    <2>1. out = "over" => Settled(Len(offers))'
      BY <1>5, <1>7 DEF Settled
    <2> QED BY <2>1, <1>1, <1>2, <1>3, <1>4, <1>5, <1>6, <1>7, <1>10 DEF OffersFit
  <1>12. HeldOnce'
    <2>1. \A i \in 1 .. Len(offers) : /\ offers'[i].call = offers[i].call
                                      /\ offers'[i].outcome # "over" => offers[i].outcome # "over"
      BY <1>3, <1>5, <1>7
    <2>2. \A d \in MyCalls : mine'[d].state # "OFFERED"
      BY <1>1, <1>2, <1>3, <1>4, <1>6 DEF RecordFits, HeldOnce
    <2> QED BY <2>1, <2>2, <1>7 DEF RecordFits, HeldOnce
  <1>13. StampsFit'
    BY <1>2, <1>7 DEF RecordFits, StampsFit
  <1>14. HandedFits'
    BY <1>2, <1>4, <1>6 DEF RecordFits, HandedFits
  <1> QED BY <1>8, <1>11, <1>12, <1>13, <1>14 DEF RecordFits

\* The state of a call no offer of this desk holds is nobody's business here.
LEMMA ElsewhereKeepsRecord == ASSUME RecordFits, NEW c \in MyCalls, Elsewhere(c) PROVE RecordFits'
  <1>0. RecordTypes
    BY DEF RecordFits
  <1>1. PICK st \in {"IN_CALL", "WRAP_UP", "CLOSED"} : mine' = [mine EXCEPT ![c].state = st]
    <2>1. PICK way \in {<<"MATCHED", "IN_CALL">>, <<"IN_CALL", "WRAP_UP">>, <<"WRAP_UP", "CLOSED">>} :
             mine' = [mine EXCEPT ![c].state = way[2]]
      BY DEF Elsewhere
    <2>2. way[2] \in {"IN_CALL", "WRAP_UP", "CLOSED"}
      OBVIOUS
    <2> QED BY <2>1, <2>2
  <1>2. UNCHANGED <<offers, ended, duty, pack>>
    BY DEF Elsewhere
  <1>3. \A i \in 1 .. Len(offers) : offers[i].outcome # "over" => offers[i].call # c
    BY <1>0, AssignmentIs DEF Elsewhere
  <1>4. PICK m \in MyCallRecord : /\ mine' = [mine EXCEPT ![c] = m] /\ m.state = st
                                  /\ m.handed = mine[c].handed /\ m.policy = mine[c].policy
    <2>1. [mine[c] EXCEPT !.state = st] \in MyCallRecord
      BY <1>0 DEF RecordTypes, MyCallRecord
    <2> QED BY <2>1, <1>0, <1>1 DEF RecordTypes, MyCallRecord
  <1>5. /\ mine' \in [MyCalls -> MyCallRecord] /\ mine'[c] = m
        /\ \A d \in MyCalls : d # c => mine'[d] = mine[d]
    BY <1>0, <1>4, MineIs
  <1>6. \A i \in 1 .. Len(offers) : offers[i] \in OfferRecord /\ offers[i].call \in MyCalls
    <2>1. \A i \in 1 .. Len(offers) : offers[i] \in OfferRecord
      BY <1>0 DEF RecordTypes
    <2> QED BY <2>1 DEF OfferRecord
  <1>7. RecordTypes'
    BY <1>0, <1>2, <1>5 DEF RecordTypes
  <1>8. \A i \in 1 .. Len(offers) : Settled(i) => Settled(i)'
    BY <1>2, <1>3, <1>5, <1>6 DEF Settled
  <1>9. OffersFit'
    <2>1. offers # <<>> => Len(offers) \in 1 .. Len(offers)
      BY <1>0 DEF RecordTypes
    <2> QED BY <2>1, <1>2, <1>3, <1>5, <1>6, <1>8 DEF RecordFits, OffersFit
  <1>10. HeldOnce'
    BY <1>1, <1>2, <1>4, <1>5 DEF RecordFits, HeldOnce
  <1>11. StampsFit'
    BY <1>2 DEF RecordFits, StampsFit
  <1>12. HandedFits'
    BY <1>2, <1>4, <1>5 DEF RecordFits, HandedFits
  <1> QED BY <1>7, <1>9, <1>10, <1>11, <1>12 DEF RecordFits

\* An end is recorded however often it is asked for; the first one ends the call.
LEMMA EndsKeepsRecord ==
    ASSUME RecordFits, NEW c \in MyCalls, AssignmentFor(c) # 0,
           NEW handed \in HandOffs, handed # NoHandOff /\ pack.needs[handed.reason] => mine[c].policy,
           Ends(AssignmentFor(c), handed), UNCHANGED pack
    PROVE  RecordFits'
  <1>0. RecordTypes
    BY DEF RecordFits
  <1>1. PICK i \in 1 .. Len(offers) : i = AssignmentFor(c) /\ offers[i].call = c /\ offers[i].outcome # "over"
    BY <1>0, AssignmentIs
  <1>2. \A j \in 1 .. Len(offers) : offers[j] \in OfferRecord /\ offers[j].call \in MyCalls
    <2>1. \A j \in 1 .. Len(offers) : offers[j] \in OfferRecord
      BY <1>0 DEF RecordTypes
    <2> QED BY <2>1 DEF OfferRecord
  <1>3. ASSUME NEW m \in MyCallRecord, mine' = [mine EXCEPT ![c] = m], m.state = mine[c].state,
               m.filed = mine[c].filed, m.policy = mine[c].policy, m.handed = handed,
               UNCHANGED <<offers, duty>>,
               ended' = ended \/ ended' = Stamped(i)
        PROVE  RecordFits'
    <2>1. /\ mine' \in [MyCalls -> MyCallRecord] /\ mine'[c] = m
          /\ \A d \in MyCalls : d # c => mine'[d] = mine[d]
      BY <1>0, <1>3, MineIs
    <2>2. /\ ended' \in Seq(Nat)
          /\ \A k \in 1 .. Len(ended') : ended'[k] = i \/ \E j \in 1 .. Len(ended) : ended'[k] = ended[j]
          /\ \A j \in 1 .. Len(ended) : \E k \in 1 .. Len(ended') : ended'[k] = ended[j]
      <3>1. CASE ended' = ended
        BY <3>1, <1>0 DEF RecordTypes
      <3>2. CASE ended' = Stamped(i)
        <4>1. ended \in Seq(Nat) /\ i \in Nat
          BY <1>0 DEF RecordTypes
        <4>2. /\ Stamped(i) \in Seq(Nat)
              /\ Len(Stamped(i)) > 0 /\ Stamped(i)[Len(Stamped(i))] = i
              /\ \A k \in 1 .. Len(Stamped(i)) :
                     Stamped(i)[k] = i \/ \E j \in 1 .. Len(ended) : Stamped(i)[k] = ended[j]
              /\ \A j \in 1 .. Len(ended) : ended[j] # i =>
                     \E k \in 1 .. Len(Stamped(i)) : Stamped(i)[k] = ended[j]
          BY <4>1, StampedIs
        <4>3. Len(Stamped(i)) \in 1 .. Len(Stamped(i))
          BY <4>2
        <4> QED BY <4>2, <4>3, <3>2
      <3> QED BY <3>1, <3>2, <1>3
    <2>3. RecordTypes'
      BY <1>0, <1>3, <2>1, <2>2 DEF RecordTypes
    <2>4. \A d \in MyCalls : mine'[d].state = mine[d].state /\ mine'[d].filed = mine[d].filed
      BY <1>3, <2>1
    <2>5. OffersFit'
      <3>1. \A j \in 1 .. Len(offers) : Settled(j) => Settled(j)'
        BY <1>2, <1>3, <2>4 DEF Settled
      <3>2. offers # <<>> => Len(offers) \in 1 .. Len(offers)
        BY <1>0 DEF RecordTypes
      <3> QED BY <3>1, <3>2, <1>2, <1>3, <2>4 DEF RecordFits, OffersFit
    <2>6. HeldOnce'
      BY <1>3, <2>4 DEF RecordFits, HeldOnce
    <2>7. StampsFit'
      BY <1>3, <2>2 DEF RecordFits, StampsFit
    <2>8. HandedFits'
      BY <1>3, <2>1 DEF RecordFits, HandedFits
    <2> QED BY <2>3, <2>5, <2>6, <2>7, <2>8 DEF RecordFits
  <1>4. CASE offers[i].outcome # "accepted" \/ mine[c].state # "IN_CALL"
    <2>1. mine' = [mine EXCEPT ![c].handed = handed] /\ UNCHANGED <<offers, duty>>
      BY <1>1, <1>4 DEF Ends
    <2>2. ended' = ended \/ ended' = Stamped(i)
      BY <1>1, <1>4 DEF Ends
    <2>3. PICK m \in MyCallRecord : /\ mine' = [mine EXCEPT ![c] = m] /\ m.state = mine[c].state
                                    /\ m.filed = mine[c].filed /\ m.policy = mine[c].policy
                                    /\ m.handed = handed
      <3>1. [mine[c] EXCEPT !.handed = handed] \in MyCallRecord
        BY <1>0 DEF RecordTypes, MyCallRecord
      <3> QED BY <3>1, <2>1, <1>0 DEF RecordTypes, MyCallRecord
    <2> QED BY <2>1, <2>2, <2>3, <1>3
  <1>5. CASE offers[i].outcome = "accepted" /\ mine[c].state = "IN_CALL"
    <2>1. /\ ended' = Stamped(i) /\ duty' = "wrapping"
          /\ mine' = [mine EXCEPT ![c].state = "WRAP_UP", ![c].handed = handed]
          /\ offers' = [offers EXCEPT ![i].acw = "running"]
      BY <1>1, <1>5 DEF Ends
    <2>2. i = Len(offers)
      BY <1>1, <1>5 DEF RecordFits, OffersFit, Settled
    <2>3. PICK m \in MyCallRecord : /\ mine' = [mine EXCEPT ![c] = m] /\ m.state = "WRAP_UP"
                                    /\ m.policy = mine[c].policy /\ m.handed = handed
      <3>1. [mine[c] EXCEPT !.state = "WRAP_UP", !.handed = handed] \in MyCallRecord
        BY <1>0 DEF RecordTypes, MyCallRecord
      <3> QED BY <3>1, <2>1, <1>0 DEF RecordTypes, MyCallRecord
    <2>4. PICK o \in OfferRecord : /\ offers' = [offers EXCEPT ![i] = o] /\ o.call = c
                                   /\ o.outcome = "accepted" /\ o.acw = "running"
      <3>1. [offers[i] EXCEPT !.acw = "running"] \in OfferRecord
        BY <1>2 DEF OfferRecord
      <3> QED BY <3>1, <2>1, <1>1, <1>2, <1>5 DEF OfferRecord
    <2>5. /\ mine' \in [MyCalls -> MyCallRecord] /\ mine'[c] = m
          /\ \A d \in MyCalls : d # c => mine'[d] = mine[d]
      BY <1>0, <2>3, MineIs
    <2>6. /\ offers' \in Seq(OfferRecord) /\ Len(offers') = Len(offers) /\ offers' # <<>>
          /\ offers'[i] = o /\ \A j \in 1 .. Len(offers) : j # i => offers'[j] = offers[j]
      BY <1>0, <1>1, <2>4 DEF RecordTypes
    <2>7. /\ ended' \in Seq(Nat)
          /\ \A k \in 1 .. Len(ended') : ended'[k] = i \/ \E j \in 1 .. Len(ended) : ended'[k] = ended[j]
          /\ \E k \in 1 .. Len(ended') : ended'[k] = i
      <3>1. ended \in Seq(Nat) /\ i \in Nat
        BY <1>0 DEF RecordTypes
      <3>2. /\ Stamped(i) \in Seq(Nat)
            /\ Len(Stamped(i)) > 0 /\ Stamped(i)[Len(Stamped(i))] = i
            /\ \A k \in 1 .. Len(Stamped(i)) :
                   Stamped(i)[k] = i \/ \E j \in 1 .. Len(ended) : Stamped(i)[k] = ended[j]
        BY <3>1, StampedIs
      <3>3. Len(Stamped(i)) \in 1 .. Len(Stamped(i))
        BY <3>2
      <3> QED BY <3>2, <3>3, <2>1
    <2>8. RecordTypes'
      BY <2>1, <2>5, <2>6, <2>7 DEF RecordTypes
    <2>9. \A j \in 1 .. Len(offers) : j # i => Settled(j) /\ (offers[j].outcome # "over" => offers[j].call # c)
      BY <1>5, <2>2 DEF RecordFits, OffersFit, Settled
    <2>10. \A j \in 1 .. Len(offers) : j # i => Settled(j)'
      BY <1>2, <2>5, <2>6, <2>9 DEF Settled
    <2>11. OffersFit'
      BY <2>1, <2>2, <2>3, <2>4, <2>5, <2>6, <2>10 DEF OffersFit
    <2>12. HeldOnce'
      <3>1. \A j \in 1 .. Len(offers) : /\ offers'[j].call = offers[j].call
                                        /\ offers'[j].outcome = offers[j].outcome
        BY <1>1, <1>5, <2>4, <2>6
      <3>2. \A d \in MyCalls : mine'[d].state # "OFFERED"
        BY <1>1, <1>5, <2>2, <2>3, <2>5 DEF RecordFits, HeldOnce, OffersFit
      <3> QED BY <3>1, <3>2, <2>6 DEF RecordFits, HeldOnce
    <2>13. StampsFit'
      BY <2>1, <2>2, <2>6, <2>7 DEF RecordFits, StampsFit
    <2>14. HandedFits'
      BY <2>3, <2>5 DEF RecordFits, HandedFits
    <2> QED BY <2>8, <2>11, <2>12, <2>13, <2>14 DEF RecordFits
  <1> QED BY <1>4, <1>5

LEMMA FileKeepsRecord == ASSUME RecordFits, NEW c \in MyCalls, FileWrapup(c) PROVE RecordFits'
  <1>0. RecordTypes
    BY DEF RecordFits
  <1>1. /\ mine[c].state \in {"WRAP_UP", "CLOSED"} /\ UNCHANGED <<offers, ended, duty, pack>>
        /\ mine' = [mine EXCEPT ![c].state = "CLOSED", ![c].filed = TRUE]
    BY DEF FileWrapup, MayFile
  <1>2. PICK m \in MyCallRecord : /\ mine' = [mine EXCEPT ![c] = m] /\ m.state = "CLOSED" /\ m.filed
                                  /\ m.policy = mine[c].policy /\ m.handed = mine[c].handed
    <2>1. [mine[c] EXCEPT !.state = "CLOSED", !.filed = TRUE] \in MyCallRecord
      BY <1>0 DEF RecordTypes, MyCallRecord
    <2> QED BY <2>1, <1>0, <1>1 DEF RecordTypes, MyCallRecord
  <1>3. /\ mine' \in [MyCalls -> MyCallRecord] /\ mine'[c] = m
        /\ \A d \in MyCalls : d # c => mine'[d] = mine[d]
    BY <1>0, <1>2, MineIs
  <1>4. RecordTypes'
    BY <1>0, <1>1, <1>3 DEF RecordTypes
  <1>5. \A j \in 1 .. Len(offers) : offers[j].call \in MyCalls
    <2>1. \A j \in 1 .. Len(offers) : offers[j] \in OfferRecord
      BY <1>0 DEF RecordTypes
    <2> QED BY <2>1 DEF OfferRecord
  <1>6. OffersFit'
    <2>1. \A j \in 1 .. Len(offers) : Settled(j) => Settled(j)'
      BY <1>1, <1>2, <1>3, <1>5 DEF Settled
    <2>2. offers # <<>> => Len(offers) \in 1 .. Len(offers)
      BY <1>0 DEF RecordTypes
    <2> QED BY <2>1, <2>2, <1>1, <1>2, <1>3, <1>5 DEF RecordFits, OffersFit
  <1>7. HeldOnce'
    BY <1>1, <1>2, <1>3 DEF RecordFits, HeldOnce
  <1>8. StampsFit' /\ HandedFits'
    BY <1>1, <1>2, <1>3 DEF RecordFits, StampsFit, HandedFits
  <1> QED BY <1>4, <1>6, <1>7, <1>8 DEF RecordFits

LEMMA DeclareKeepsRecord == ASSUME RecordFits, DeclareNext PROVE RecordFits'
  <1>0. RecordTypes
    BY DEF RecordFits
  <1>1. LatestWrapping = Len(offers) /\ Len(offers) \in 1 .. Len(offers)
    BY LatestIsLast DEF DeclareNext
  <1>2. PICK i \in 1 .. Len(offers) : i = Len(offers)
    BY <1>1
  <1>3. \A j \in 1 .. Len(offers) : offers[j] \in OfferRecord /\ offers[j].call \in MyCalls
    <2>1. \A j \in 1 .. Len(offers) : offers[j] \in OfferRecord
      BY <1>0 DEF RecordTypes
    <2> QED BY <2>1 DEF OfferRecord
  <1>4. PICK c \in MyCalls : c = offers[i].call
    BY <1>3
  <1>5. /\ duty = "wrapping" /\ duty' = "free" /\ UNCHANGED <<ended, pack>>
        /\ offers' = [offers EXCEPT ![i].acw = "ended"]
        /\ mine' = [mine EXCEPT ![c].state = "CLOSED"]
    <2>1. LatestWrapping = i /\ i # 0 /\ CallOf(i) = c
      BY <1>1, <1>2, <1>4 DEF CallOf
    <2> QED BY <2>1 DEF DeclareNext
  <1>6. offers[i].outcome = "accepted" /\ mine[c].state \in {"WRAP_UP", "CLOSED"}
    BY <1>2, <1>4, <1>5 DEF RecordFits, OffersFit
  <1>7. PICK m \in MyCallRecord : /\ mine' = [mine EXCEPT ![c] = m] /\ m.state = "CLOSED"
                                  /\ m.policy = mine[c].policy /\ m.handed = mine[c].handed
    <2>1. [mine[c] EXCEPT !.state = "CLOSED"] \in MyCallRecord
      BY <1>0 DEF RecordTypes, MyCallRecord
    <2> QED BY <2>1, <1>0, <1>5 DEF RecordTypes, MyCallRecord
  <1>8. PICK o \in OfferRecord : /\ offers' = [offers EXCEPT ![i] = o] /\ o.call = c
                                 /\ o.outcome = "accepted" /\ o.acw = "ended"
    <2>1. [offers[i] EXCEPT !.acw = "ended"] \in OfferRecord
      BY <1>3 DEF OfferRecord
    <2> QED BY <2>1, <1>3, <1>4, <1>5, <1>6 DEF OfferRecord
  <1>9. /\ mine' \in [MyCalls -> MyCallRecord] /\ mine'[c] = m
        /\ \A d \in MyCalls : d # c => mine'[d] = mine[d]
    BY <1>0, <1>7, MineIs
  <1>10. /\ offers' \in Seq(OfferRecord) /\ Len(offers') = Len(offers)
         /\ offers'[i] = o /\ \A j \in 1 .. Len(offers) : j # i => offers'[j] = offers[j]
    BY <1>0, <1>2, <1>8 DEF RecordTypes
  <1>11. RecordTypes'
    BY <1>0, <1>5, <1>9, <1>10 DEF RecordTypes
  <1>12. OffersFit'
    <2>1. \A j \in 1 .. Len(offers) : j # i => Settled(j)
      BY <1>2 DEF RecordFits, OffersFit
    <2>2. \A j \in 1 .. Len(offers) : j # i => Settled(j)'
      BY <2>1, <1>3, <1>7, <1>9, <1>10 DEF Settled
    <2>3. Settled(i)'
      BY <1>7, <1>8, <1>9, <1>10 DEF Settled
    <2> QED BY <2>2, <2>3, <1>5, <1>10 DEF OffersFit
  <1>13. HeldOnce'
    <2>1. \A j \in 1 .. Len(offers) : offers'[j].call = offers[j].call /\ offers'[j].outcome = offers[j].outcome
      BY <1>4, <1>6, <1>8, <1>10
    <2>2. \A d \in MyCalls : mine'[d].state # "OFFERED"
      BY <1>5, <1>7, <1>9 DEF RecordFits, HeldOnce
    <2> QED BY <2>1, <2>2, <1>10 DEF RecordFits, HeldOnce
  <1>14. StampsFit' /\ HandedFits'
    BY <1>5, <1>7, <1>9, <1>10 DEF RecordFits, StampsFit, HandedFits
  <1> QED BY <1>11, <1>12, <1>13, <1>14 DEF RecordFits

LEMMA RecordFitsStep == RecordFits /\ [RecordStep]_recordVars => RecordFits'
  <1> SUFFICES ASSUME RecordFits, [RecordStep]_recordVars PROVE RecordFits'
    OBVIOUS
  <1>1. ASSUME NEW c \in MyCalls, EndMyCall(c) PROVE RecordFits'
    <2>1. mine[c].handed \in HandOffs
      BY DEF RecordFits, RecordTypes, MyCallRecord
    <2>2. mine[c].handed # NoHandOff /\ pack.needs[mine[c].handed.reason] => mine[c].policy
      BY DEF RecordFits, HandedFits
    <2>3. AssignmentFor(c) # 0 /\ Ends(AssignmentFor(c), mine[c].handed) /\ UNCHANGED pack
      BY <1>1 DEF EndMyCall
    <2> QED BY <2>1, <2>2, <2>3, EndsKeepsRecord
  <1>2. ASSUME NEW c \in MyCalls, NEW r \in Reason, NEW to \in Insurer \cup {FromPolicy}, HandOff(c, r, to)
        PROVE  RecordFits'
    <2> DEFINE handed == [reason |-> r, to |-> to]
    <2>1. handed \in HandOffs
      <3>1. handed \in [reason : Reason, to : Insurer \cup {FromPolicy}]
        OBVIOUS
      <3> QED BY <3>1, Zenon DEF HandOffs
    <2>2. pack.needs[handed.reason] => mine[c].policy
      BY <1>2 DEF HandOff, MayHandOff
    <2>3. AssignmentFor(c) # 0 /\ Ends(AssignmentFor(c), handed) /\ UNCHANGED pack
      BY <1>2 DEF HandOff
    <2> HIDE DEF handed
    <2> QED BY <2>1, <2>2, <2>3, EndsKeepsRecord
  <1>3. CASE UNCHANGED recordVars
    BY <1>3 DEF recordVars, RecordFits, RecordTypes, OffersFit, HeldOnce, StampsFit, HandedFits, Settled
  <1> QED BY <1>1, <1>2, <1>3, RingKeepsRecord, RingEndsKeepsRecord, ElsewhereKeepsRecord, FileKeepsRecord,
             DeclareKeepsRecord DEF RecordStep

LEMMA RecordFitsAlways == Spec => []RecordFits
  <1>1. [Next]_vars => [RecordStep]_recordVars
    BY DEF Next, vars, recordVars
  <1> QED BY <1>1, RecordFitsInit, RecordFitsStep, PTL DEF Spec

LEMMA FitOneCall == RecordFits => OneCallAtATime
  <1> SUFFICES ASSUME RecordFits PROVE OneCallAtATime
    OBVIOUS
  <1>0. /\ RecordTypes /\ DOMAIN offers = 1 .. Len(offers) /\ Len(offers) \in Nat
        /\ duty # "free" => Len(offers) \in 1 .. Len(offers)
    BY DEF RecordFits, RecordTypes, OffersFit
  <1>1. \A i \in 1 .. Len(offers) : offers[i] \in OfferRecord
    BY <1>0 DEF RecordTypes
  <1> DEFINE n == Len(offers)
             At(c) == duty \in {"talking", "wrapping"} /\ offers[n].call = c
  <1>2. \A c \in MyCalls : \A i \in StillHeld(c) : i \in 1 .. n /\ offers[i].call = c /\ offers[i].outcome # "over"
    BY <1>0 DEF StillHeld
  <1>3. ASSUME NEW c \in MyCalls PROVE OnHand(c) <=> At(c)
    <2>1. ASSUME OnHand(c) PROVE At(c)
      <3>1. PICK i \in StillHeld(c) : offers[i].outcome = "accepted" /\ offers[i].acw # "ended"
        BY <2>1 DEF OnHand
      <3>2. i \in 1 .. n /\ offers[i].call = c
        BY <3>1, <1>2
      <3>3. ~Settled(i)
        BY <3>1 DEF Settled
      <3>4. i = n /\ duty # "free"
        BY <3>2, <3>3 DEF RecordFits, OffersFit
      <3> QED BY <3>1, <3>2, <3>4 DEF RecordFits, OffersFit
    <2>2. ASSUME At(c) PROVE OnHand(c)
      <3>1. n \in StillHeld(c) /\ offers[n].outcome = "accepted" /\ offers[n].acw # "ended"
        BY <2>2, <1>0 DEF RecordFits, OffersFit, StillHeld
      <3> QED BY <3>1 DEF OnHand
    <2> QED BY <2>1, <2>2
  <1>4. Cardinality({c \in MyCalls : OnHand(c)}) <= 1
    <2>1. CASE \E c \in MyCalls : OnHand(c)
      <3>1. PICK c \in MyCalls : OnHand(c)
        BY <2>1
      <3>2. {d \in MyCalls : OnHand(d)} = {c}
        BY <3>1, <1>3
      <3> QED BY <3>2, FS_Singleton
    <2>2. CASE ~\E c \in MyCalls : OnHand(c)
      <3>1. {d \in MyCalls : OnHand(d)} = {}
        BY <2>2
      <3> QED BY <3>1, FS_EmptySet
    <2> QED BY <2>1, <2>2
  <1>5. \A i \in 1 .. n : offers[i].acw = "running" <=> i = n /\ duty = "wrapping"
    <2> TAKE i \in 1 .. n
    <2>1. CASE i = n /\ duty # "free"
      BY <2>1 DEF RecordFits, OffersFit
    <2>2. CASE ~(i = n /\ duty # "free")
      <3>1. Settled(i)
        BY <2>2 DEF RecordFits, OffersFit
      <3>2. offers[i].acw # "running"
        BY <3>1 DEF Settled
      <3> QED BY <3>2, <2>2
    <2> QED BY <2>1, <2>2
  <1>6. duty \in {"talking", "wrapping"} =>
           \/ duty = "wrapping" /\ mine[offers[n].call].filed
           \/ ActiveCall = offers[n].call
    <2> SUFFICES ASSUME duty \in {"talking", "wrapping"}, mine[offers[n].call].state \in {"IN_CALL", "WRAP_UP"}
                 PROVE  ActiveCall = offers[n].call
      BY DEF RecordFits, OffersFit
    <2> DEFINE S == {i \in DOMAIN offers : mine[offers[i].call].state \in {"IN_CALL", "WRAP_UP"}}
    <2>1. S \in SUBSET (1 .. n) /\ n \in S
      BY <1>0
    <2>2. Newest(S) \in S /\ Newest(S) >= n
      BY <2>1, <1>0, NewestIs
    <2>3. Newest(S) \in 1 .. n
      BY <2>1, <2>2, Zenon
    <2> HIDE DEF S
    <2>4. Newest(S) = n /\ n # 0
      BY <2>2, <2>3, <1>0
    <2>5. CallOf(Newest(S)) = offers[n].call
      BY <2>4 DEF CallOf
    <2> QED BY <2>5 DEF ActiveCall, S
  <1>7. ASSUME NEW c \in MyCalls, ActiveCall = c, ~OnHand(c) PROVE AssignmentFor(c) = 0
    <2> DEFINE S == {i \in DOMAIN offers : mine[offers[i].call].state \in {"IN_CALL", "WRAP_UP"}}
    <2>1. S \in SUBSET (1 .. n)
      BY <1>0
    <2>2. mine[c].state \in {"IN_CALL", "WRAP_UP"}
      <3>1. Newest(S) # 0 /\ offers[Newest(S)].call = c
        BY <1>7 DEF ActiveCall, CallOf, NoCall, MyCalls
      <3>2. Newest(S) \in S
        BY <2>1, <3>1, <1>0, NewestIs
      <3> QED BY <3>1, <3>2
    <2>3. SUFFICES ASSUME AssignmentFor(c) # 0 PROVE FALSE
      OBVIOUS
    <2>4. PICK i \in 1 .. n : offers[i].call = c /\ offers[i].outcome # "over"
      BY <1>0, <2>3, AssignmentIs
    <2>5. ~Settled(i)
      BY <2>2, <2>4 DEF Settled
    <2>6. i = n /\ duty # "free"
      BY <2>5 DEF RecordFits, OffersFit
    <2>7. At(c)
      BY <2>2, <2>4, <2>6 DEF RecordFits, OffersFit
    <2> QED BY <2>7, <1>3, <1>7
  <1>8. ASSUME NEW c \in MyCalls, duty = "talking", OnHand(c)
        PROVE  /\ ActiveCall = c /\ WrappingCall = NoCall
               /\ AssignmentFor(c) # 0 /\ offers[AssignmentFor(c)].outcome = "accepted"
    <2>1. offers[n].call = c /\ ActiveCall = c
      BY <1>3, <1>6, <1>8
    <2>2. WrappingCall = NoCall
      <3>1. {i \in DOMAIN offers : Wraps(i)} = {}
        BY <1>0, <1>5, <1>8 DEF Wraps
      <3> QED BY <3>1 DEF WrappingCall, Newest, CallOf
    <2>3. n \in StillHeld(c) /\ offers[n].outcome = "accepted"
      BY <1>0, <1>8, <2>1 DEF RecordFits, OffersFit, StillHeld
    <2>4. AssignmentFor(c) # 0 /\ AssignmentFor(c) \in StillHeld(c)
      BY <2>3, <1>0, AssignmentIs
    <2>5. AssignmentFor(c) = n
      BY <2>3, <2>4, <1>2 DEF RecordFits, HeldOnce
    <2> QED BY <2>1, <2>2, <2>3, <2>4, <2>5
  <1>9. ASSUME NEW c \in MyCalls, duty = "wrapping", OnHand(c)
        PROVE  /\ WrappingCall = c /\ CallOf(LatestWrapping) = c
               /\ mine[c].filed \/ ActiveCall = c
    <2>1. offers[n].call = c /\ (mine[c].filed \/ ActiveCall = c) /\ n # 0
      BY <1>0, <1>3, <1>6, <1>9
    <2>2. Newest({i \in DOMAIN offers : Wraps(i)}) = n
      <3>1. {i \in DOMAIN offers : Wraps(i)} = {n}
        BY <1>0, <1>5, <1>9 DEF Wraps
      <3>2. {n} \in SUBSET (1 .. n) /\ {n} # {}
        BY <1>0, <1>9
      <3>3. Newest({n}) \in {n}
        BY <3>2, <1>0, NewestIs
      <3> QED BY <3>1, <3>3
    <2>3. LatestWrapping = n
      BY <1>9, LatestIsLast
    <2> QED BY <2>1, <2>2, <2>3 DEF WrappingCall, CallOf
  <1>10. ASSUME NEW c \in MyCalls PROVE c \in Backlog <=> MayFile(c) /\ mine[c].state = "CLOSED"
    <2>1. ASSUME c \in Backlog PROVE MayFile(c) /\ mine[c].state = "CLOSED"
      <3>1. PICK i \in 1 .. n : offers[i].call = c /\ offers[i].acw = "ended" /\ ~mine[c].filed
        BY <1>0, <2>1 DEF Backlog
      <3>2. Settled(i) /\ offers[i].outcome # "over"
        BY <3>1 DEF RecordFits, OffersFit, Settled
      <3>3. i \in StillHeld(c) /\ mine[c].state = "CLOSED"
        BY <1>0, <3>1, <3>2 DEF StillHeld, Settled
      <3>4. AssignmentFor(c) # 0
        BY <3>3, <1>0, AssignmentIs
      <3> QED BY <3>1, <3>3, <3>4 DEF MayFile
    <2>2. ASSUME MayFile(c), mine[c].state = "CLOSED" PROVE c \in Backlog
      <3>1. PICK i \in 1 .. n : offers[i].call = c /\ offers[i].outcome # "over" /\ ~mine[c].filed
        BY <1>0, <2>2, AssignmentIs DEF MayFile
      <3>2. Settled(i)
        BY <2>2, <3>1 DEF RecordFits, OffersFit
      <3> QED BY <1>0, <3>1, <3>2 DEF Backlog, Settled
    <2> QED BY <2>1, <2>2
  <1>11. duty \in {"talking", "wrapping"} <=> \E c \in MyCalls : OnHand(c)
    <2>1. duty \in {"talking", "wrapping"} => offers[n].call \in MyCalls
      BY <1>0, <1>1 DEF OfferRecord
    <2> QED BY <2>1, <1>3
  <1> QED BY <1>4, <1>7, <1>8, <1>9, <1>10, <1>11 DEF OneCallAtATime

\* Every derivation answers for one call, however many calls ring at the desk and
\* however often their ends are asked for (api/routers/agent.py, AssignmentService).
THEOREM OneCallAlways == Spec => []OneCallAtATime
  BY RecordFitsAlways, FitOneCall, PTL


-----------------------------------------------------------------------------
(* Whom a call may be handed to.                                           *)

\* What is on the rail is in the file that was loaded.
PackFits ==
    /\ DOMAIN pack.insurers \subseteq Insurer
    /\ DOMAIN pack.needs # {} => \E r \in DOMAIN pack.needs : ~pack.needs[r]

LEMMA EntriesAre ==
    ASSUME NEW codes, NEW values, NEW e \in Entries(codes, values)
    PROVE  DOMAIN e \subseteq codes
  BY DEF Entries

LEMMA PackFitsInit == Init => PackFits
  <1>1. CASE RecordInit
    <2>1. pack.insurers \in Entries(Insurer, {{}, {"here"}}) /\ PackLoads(pack)
      BY <1>1 DEF RecordInit
    <2> QED BY <2>1, EntriesAre DEF PackFits, PackLoads
  <1>2. CASE NoRecord
    <2>1. pack.insurers = <<>> /\ pack.needs = <<>>
      BY <1>2 DEF NoRecord
    <2>2. DOMAIN pack.insurers = {} /\ DOMAIN pack.needs = {}
      BY <2>1
    <2> QED BY <2>2 DEF PackFits
  <1> QED BY <1>1, <1>2 DEF Init

LEMMA PackFitsStep == PackFits /\ [RecordStep]_recordVars => PackFits'
  <1>1. [RecordStep]_recordVars => UNCHANGED pack
    BY DEF recordVars, RecordStep, DeclareNext, Ring, PickedUp, Declined, GivenUp, RingEnds, Elsewhere, EndMyCall,
           FileWrapup, HandOff
  <1> QED BY <1>1 DEF PackFits

LEMMA FitOptions == RecordFits /\ PackFits => OptionsAreHonoured
  <1> SUFFICES ASSUME RecordFits, PackFits, NEW c \in MyCalls PROVE
        /\ \A line \in Line : LET offered == Options(pack, c, line) IN
              /\ DOMAIN pack.needs # {} => offered.reasons # {}
              /\ \A r \in offered.reasons, to \in offered.to : MayHandOff(pack, c, r, to)
        /\ mine[c].handed # NoHandOff /\ pack.needs[mine[c].handed.reason] => mine[c].policy
    BY DEF OptionsAreHonoured
  <1>1. mine[c].handed # NoHandOff /\ pack.needs[mine[c].handed.reason] => mine[c].policy
    BY DEF RecordFits, HandedFits
  <1>2. ASSUME NEW line \in Line PROVE
          LET offered == Options(pack, c, line) IN
              /\ DOMAIN pack.needs # {} => offered.reasons # {}
              /\ \A r \in offered.reasons, to \in offered.to : MayHandOff(pack, c, r, to)
    <2>1. DOMAIN pack.needs # {} => Options(pack, c, line).reasons # {}
      BY DEF PackFits, Options, ReasonOffered
    <2>2. ASSUME NEW r \in Options(pack, c, line).reasons, NEW to \in Options(pack, c, line).to
          PROVE  MayHandOff(pack, c, r, to)
      <3>1. r \in DOMAIN pack.needs /\ (mine[c].policy \/ ~pack.needs[r])
        BY DEF Options, ReasonOffered
      <3>2. to \in InsurersFor(pack, line) \/ (to = FromPolicy /\ mine[c].policy)
        BY DEF Options
      <3>3. to \in InsurersFor(pack, line) => to \in DOMAIN pack.insurers /\ to # FromPolicy
        BY AgentsCallsAssumption DEF InsurersFor, PackFits
      <3> QED BY <3>1, <3>2, <3>3 DEF MayHandOff
    <2> QED BY <2>1, <2>2
  <1> QED BY <1>1, <1>2

\* Spec => []OptionsAreHonoured: whatever the file lists, every reason and every
\* company the rail offers for a call is one the server takes (handoff_options
\* and record_handoff judge by themselves), there is always one to give, and no
\* record that needs a policy is of a caller without one.
THEOREM OptionsAlwaysHonoured == Spec => []OptionsAreHonoured
  <1>1. [Next]_vars => [RecordStep]_recordVars
    BY DEF Next, vars, recordVars
  <1> QED BY <1>1, RecordFitsAlways, PackFitsInit, PackFitsStep, FitOptions, PTL DEF Spec

-----------------------------------------------------------------------------
(* The roster for a transfer.                                              *)

\* A rank is how many are before: in a finite set in order every place is taken,
\* once, and whoever is before another has the smaller rank.
LEMMA RanksAre ==
    ASSUME NEW S, IsFiniteSet(S), NEW R,
           \A r, s \in S : r = s \/ <<r, s>> \in R \/ <<s, r>> \in R,
           \A r, s, t \in S : <<r, s>> \in R /\ <<s, t>> \in R => <<r, t>> \in R,
           \A r \in S : <<r, r>> \notin R
    PROVE  LET Rank(r) == Cardinality({s \in S : <<s, r>> \in R}) IN
           /\ \A r \in S : Rank(r) \in Nat /\ Rank(r) < Cardinality(S)
           /\ \A i \in 1 .. Cardinality(S) : \E r \in S : Rank(r) = i - 1
           /\ \A r, s \in S : Rank(r) < Rank(s) <=> <<r, s>> \in R
  <1> DEFINE n == Cardinality(S)
             Over(r) == {s \in S : <<s, r>> \in R}
             rank == [r \in S |-> Cardinality(Over(r)) + 1]
  <1>1. n \in Nat
    BY FS_CardinalityType
  <1> HIDE DEF n
  <1>2. ASSUME NEW r \in S PROVE IsFiniteSet(Over(r)) /\ Cardinality(Over(r)) \in Nat /\ Cardinality(Over(r)) < n
    <2>1. Over(r) \in SUBSET S /\ r \notin Over(r)
      OBVIOUS
    <2>2. IsFiniteSet(Over(r)) /\ Cardinality(Over(r)) <= n /\ Cardinality(Over(r)) # n
      BY <2>1, FS_Subset DEF n
    <2>3. Cardinality(Over(r)) \in Nat
      BY <2>2, FS_CardinalityType
    <2> QED BY <1>1, <2>2, <2>3
  <1>3. ASSUME NEW r \in S, NEW s \in S, <<r, s>> \in R PROVE Cardinality(Over(r)) < Cardinality(Over(s))
    <2>1. Over(r) \in SUBSET Over(s) /\ r \in Over(s) /\ r \notin Over(r)
      BY <1>3
    <2>2. Cardinality(Over(r)) <= Cardinality(Over(s)) /\ Cardinality(Over(r)) # Cardinality(Over(s))
      BY <1>2, <2>1, FS_Subset
    <2>3. Cardinality(Over(r)) \in Nat /\ Cardinality(Over(s)) \in Nat
      BY <1>2
    <2> HIDE DEF Over
    <2> QED BY <2>2, <2>3
  <1> HIDE DEF Over
  <1>4. ASSUME NEW r \in S, NEW s \in S PROVE Cardinality(Over(r)) < Cardinality(Over(s)) <=> <<r, s>> \in R
    <2>1. Cardinality(Over(r)) \in Nat /\ Cardinality(Over(s)) \in Nat
      BY <1>2
    <2>2. <<s, r>> \in R => Cardinality(Over(s)) < Cardinality(Over(r))
      BY <1>3
    <2> QED BY <1>3, <2>1, <2>2
  <1>5. rank \in [S -> 1 .. n] /\ \A r \in S : rank[r] = Cardinality(Over(r)) + 1
    BY <1>1, <1>2
  <1> HIDE DEF rank
  <1>6. ASSUME NEW r \in S, NEW s \in S, rank[r] = rank[s] PROVE r = s
    <2>1. /\ Cardinality(Over(r)) \in Nat /\ Cardinality(Over(s)) \in Nat
          /\ Cardinality(Over(r)) + 1 = Cardinality(Over(s)) + 1
      BY <1>2, <1>5, <1>6
    <2>2. <<r, s>> \notin R /\ <<s, r>> \notin R
      BY <1>4, <2>1
    <2> QED BY <2>2
  <1>7. \A i \in 1 .. n : \E r \in S : rank[r] = i
    <2>1. rank \in Injection(S, 1 .. n)
      BY <1>5, <1>6 DEF Injection, IsInjective
    <2>2. IsFiniteSet(1 .. n) /\ Cardinality(1 .. n) = n
      BY <1>1, FS_Interval
    <2>3. rank \in Surjection(S, 1 .. n)
      BY <2>1, <2>2, FS_Injection DEF n
    <2> QED BY <2>3 DEF Surjection
  <1>8. \A i \in 1 .. n : \E r \in S : Cardinality(Over(r)) = i - 1
    <2> TAKE i \in 1 .. n
    <2>1. PICK r \in S : rank[r] = i
      BY <1>7
    <2>2. Cardinality(Over(r)) = i - 1
      BY <1>1, <1>2, <1>5, <2>1
    <2> QED BY <2>2
  <1> QED BY <1>2, <1>4, <1>8 DEF Over, n

\* Placed by rank, the rows stand in order, each once.
LEMMA PlacedIs ==
    ASSUME NEW S, IsFiniteSet(S),
           \A r \in S : r.fit \in Int /\ r.agent \in Int,
           \A r, s \in S : r.agent = s.agent => r = s
    PROVE  /\ Placed(S) \in Bijection(1 .. Cardinality(S), S)
           /\ \A i, j \in 1 .. Cardinality(S) : i < j => Above(Placed(S)[i], Placed(S)[j])
  <1> DEFINE n == Cardinality(S)
             R == {o \in S \X S : Above(o[1], o[2])}
             Rank(r) == Cardinality({s \in S : Above(s, r)})
  <1>1. \A r, s \in S : <<r, s>> \in R <=> Above(r, s)
    OBVIOUS
  <1>2. \A r \in S : Cardinality({s \in S : <<s, r>> \in R}) = Rank(r)
    <2> TAKE r \in S
    <2>1. {s \in S : <<s, r>> \in R} = {s \in S : Above(s, r)}
      OBVIOUS
    <2> QED BY <2>1
  <1> HIDE DEF R
  <1>3. /\ \A r, s \in S : r = s \/ <<r, s>> \in R \/ <<s, r>> \in R
        /\ \A r, s, t \in S : <<r, s>> \in R /\ <<s, t>> \in R => <<r, t>> \in R
        /\ \A r \in S : <<r, r>> \notin R
    BY <1>1 DEF Above
  <1>4. /\ \A r \in S : Rank(r) \in Nat /\ Rank(r) < n
        /\ \A i \in 1 .. n : \E r \in S : Rank(r) = i - 1
        /\ \A r, s \in S : Rank(r) < Rank(s) <=> Above(r, s)
    <2> DEFINE Rnk(r) == Cardinality({s \in S : <<s, r>> \in R})
    <2>1. /\ \A r \in S : Rnk(r) \in Nat /\ Rnk(r) < n
          /\ \A i \in 1 .. n : \E r \in S : Rnk(r) = i - 1
          /\ \A r, s \in S : Rnk(r) < Rnk(s) <=> <<r, s>> \in R
      BY <1>3, RanksAre
    <2>2. \A r \in S : Rnk(r) = Rank(r)
      BY <1>2
    <2> HIDE DEF Rnk, Rank, n
    <2> QED BY <1>1, <2>1, <2>2
  <1>5. \A i \in 1 .. n : Placed(S)[i] \in S /\ Rank(Placed(S)[i]) = i - 1
    BY <1>4 DEF Placed
  <1>6. Placed(S) \in [1 .. n -> S]
    BY <1>5 DEF Placed
  <1>7. n \in Nat
    BY FS_CardinalityType
  <1> HIDE DEF Rank, n
  <1>8. \A i, j \in 1 .. n : Placed(S)[i] = Placed(S)[j] => i = j
    <2> TAKE i, j \in 1 .. n
    <2> HAVE Placed(S)[i] = Placed(S)[j]
    <2>1. i - 1 = j - 1
      BY <1>5
    <2> QED BY <1>7, <2>1
  <1>9. \A r \in S : \E i \in 1 .. n : Placed(S)[i] = r
    <2> TAKE r \in S
    <2>1. Rank(r) + 1 \in 1 .. n
      BY <1>4, <1>7
    <2>2. PICK i \in 1 .. n : i = Rank(r) + 1
      BY <2>1
    <2>3. Placed(S)[i] \in S /\ Rank(Placed(S)[i]) = Rank(r) /\ Rank(r) \in Nat
      BY <1>4, <1>5, <2>2
    <2>4. Placed(S)[i] = r
      <3>1. ~Above(Placed(S)[i], r) /\ ~Above(r, Placed(S)[i])
        BY <1>4, <2>3
      <3> QED BY <2>3, <3>1 DEF Above
    <2> QED BY <2>4
  <1>10. \A i, j \in 1 .. n : i < j => Above(Placed(S)[i], Placed(S)[j])
    <2> TAKE i, j \in 1 .. n
    <2> HAVE i < j
    <2>1. i - 1 < j - 1
      BY <1>7
    <2> QED BY <1>4, <1>5, <2>1
  <1>11. Placed(S) \in Bijection(1 .. n, S)
    BY <1>6, <1>8, <1>9 DEF Bijection, Injection, Surjection, IsInjective
  <1> QED BY <1>10, <1>11 DEF n

RosterTypes ==
    /\ people \in [Colleagues -> [skill : [Skills -> Proficiency], speaks : BOOLEAN]]
    /\ presence \in [Colleagues -> {NeverSeen} \cup Seen]

RosterFits == RosterTypes /\ RosterIsTheFloor

\* The matcher's filter passes those whom presence would let a tick ring: who is
\* AVAILABLE has no call in progress.
LEMMA FilterIsFloor ==
    ASSUME RosterTypes, NEW a \in Colleagues, NEW skill \in Skills
    PROVE  /\ BlockedBy(a, skill) = "none" <=> CouldTake(a, skill)
           /\ CouldTake(a, skill) => Offerable(presence[a]) /\ presence[a].load = 0
           /\ people[a].skill[skill] \in Nat
  <1>1. people[a] \in [skill : [Skills -> Proficiency], speaks : BOOLEAN] /\ people[a].skill[skill] \in Proficiency
    BY DEF RosterTypes
  <1>2. people[a].skill[skill] \in Nat
    BY <1>1, RosterAssumption
  <1>3. presence[a] = NeverSeen \/ presence[a] \in Seen
    BY DEF RosterTypes
  <1>4. ASSUME presence[a] \in Seen, presence[a].system = "AVAILABLE"
        PROVE  presence[a].load = 0 /\ presence[a].load < AtOnce
    <2>1. presence[a].load = 0
      BY <1>4 DEF Seen
    <2> QED BY <2>1, RosterAssumption
  <1>5. ASSUME BlockedBy(a, skill) = "none" PROVE CouldTake(a, skill)
    <2>1. presence[a] # NeverSeen /\ Filter(a, skill) = "none"
      BY <1>5 DEF BlockedBy
    <2>2. /\ people[a].skill[skill] # 0 /\ people[a].speaks
          /\ Accepts(presence[a]) /\ presence[a].system = "AVAILABLE"
      BY <2>1 DEF Filter
    <2> QED BY <1>2, <2>1, <2>2 DEF CouldTake, Accepts
  <1>6. ASSUME CouldTake(a, skill)
        PROVE  BlockedBy(a, skill) = "none" /\ Offerable(presence[a]) /\ presence[a].load = 0
    <2>1. /\ presence[a] # NeverSeen /\ presence[a].system = "AVAILABLE" /\ Accepts(presence[a])
          /\ people[a].skill[skill] > 0 /\ people[a].speaks
      BY <1>6 DEF CouldTake, Accepts
    <2>2. presence[a].load = 0 /\ presence[a].load < AtOnce
      BY <1>3, <1>4, <2>1
    <2>3. ~(presence[a].load >= AtOnce) /\ people[a].skill[skill] # 0
      BY <2>1, <2>2, RosterAssumption
    <2>4. Filter(a, skill) = "none"
      BY <2>1, <2>3 DEF Filter
    <2> QED BY <2>1, <2>2, <2>4 DEF BlockedBy, Offerable
  <1> QED BY <1>2, <1>5, <1>6

LEMMA LargestOfTwo == ASSUME NEW x \in Nat PROVE Max({0, x}) = x
  <1>1. {0, x} \in SUBSET (0 .. x) /\ {0, x} # {}
    OBVIOUS
  <1>2. Max({0, x}) \in {0, x} /\ Max({0, x}) >= x
    BY <1>1, GreatestIs
  <1> QED BY <1>2

LEMMA MoreSkillMorePoints ==
    ASSUME NEW p \in Nat, p > 0, NEW x \in Nat, NEW y \in Nat, p * x >= p * y
    PROVE  x >= y
  <1>1. SUFFICES ASSUME x + 1 <= y PROVE FALSE
    OBVIOUS
  <1>2. p * (x + 1) <= p * y /\ p * (x + 1) = p * x + p
    BY <1>1
  <1> QED BY <1>2

\* What the rows of the colleagues are.
LEMMA RowsAre ==
    ASSUME RosterTypes, NEW skill \in Skills
    PROVE  LET S == {Row(a, skill) : a \in Colleagues} IN
           /\ IsFiniteSet(S) /\ Cardinality(S) = Cardinality(Colleagues)
           /\ \A r \in S : r.fit \in Int /\ r.agent \in Nat
           /\ \A r, s \in S : r.agent = s.agent => r = s
           /\ \A r \in S : r = Row(r.agent, skill) /\ r.agent \in Colleagues
           /\ \A r \in S : r.blocked = "none" <=> CouldTake(r.agent, skill)
           /\ \A r \in S : r.blocked = "none" => r.offerable /\ r.fit = SkillPoints * people[r.agent].skill[skill]
           /\ \A r \in S : r.blocked # "none" => r.fit = -1
  <1> DEFINE S == {Row(a, skill) : a \in Colleagues}
             rowOf == [a \in Colleagues |-> Row(a, skill)]
  <1>1. ASSUME NEW a \in Colleagues
        PROVE  /\ Row(a, skill).agent = a /\ a \in Nat
               /\ Row(a, skill).blocked = BlockedBy(a, skill)
               /\ Row(a, skill).offerable = Offerable(presence[a])
               /\ Row(a, skill).fit = IF BlockedBy(a, skill) = "none" THEN Fit(a, skill) ELSE -1
    BY RosterAssumption DEF Row
  <1>2. ASSUME NEW a \in Colleagues, CouldTake(a, skill)
        PROVE  Fit(a, skill) = SkillPoints * people[a].skill[skill] /\ Fit(a, skill) \in Nat
    <2>1. presence[a].load = 0 /\ people[a].skill[skill] \in Nat
      BY <1>2, FilterIsFloor
    <2>2. (LoadPoints * presence[a].load) \div AtOnce = 0
      BY <2>1, RosterAssumption
    <2>3. SkillPoints * people[a].skill[skill] \in Nat
      BY <2>1, RosterAssumption
    <2>4. SkillPoints * people[a].skill[skill] - (LoadPoints * presence[a].load) \div AtOnce
            = SkillPoints * people[a].skill[skill]
      BY <2>2, <2>3
    <2> QED BY <2>3, <2>4, LargestOfTwo DEF Fit
  <1>3. \A r \in S : \E a \in Colleagues : r = Row(a, skill) /\ r.agent = a
    BY <1>1
  <1>4. /\ \A r, s \in S : r.agent = s.agent => r = s
        /\ \A r \in S : r = Row(r.agent, skill) /\ r.agent \in Colleagues /\ r.agent \in Nat
    BY <1>1, <1>3
  <1>5. IsFiniteSet(S) /\ Cardinality(S) = Cardinality(Colleagues)
    <2>1. rowOf \in [Colleagues -> S] /\ \A a, b \in Colleagues : rowOf[a] = rowOf[b] => a = b
      BY <1>1
    <2>2. \A r \in S : \E a \in Colleagues : rowOf[a] = r
      BY <1>3
    <2> HIDE DEF rowOf, S
    <2>3. rowOf \in Bijection(Colleagues, S)
      BY <2>1, <2>2 DEF Bijection, Injection, Surjection, IsInjective
    <2>4. ExistsBijection(Colleagues, S)
      BY <2>3 DEF ExistsBijection
    <2> QED BY <2>4, FS_Bijection, RosterAssumption
  <1>6. ASSUME NEW r \in S
        PROVE  /\ r.fit \in Int
               /\ r.blocked = "none" <=> CouldTake(r.agent, skill)
               /\ r.blocked = "none" => r.offerable /\ r.fit = SkillPoints * people[r.agent].skill[skill]
               /\ r.blocked # "none" => r.fit = -1
    <2>1. PICK a \in Colleagues : r = Row(a, skill) /\ r.agent = a
      BY <1>3
    <2>2. BlockedBy(a, skill) = "none" <=> CouldTake(a, skill)
      BY FilterIsFloor
    <2>3. CASE CouldTake(a, skill)
      <3>1. Offerable(presence[a])
        BY <2>3, FilterIsFloor
      <3> QED BY <1>1, <1>2, <2>1, <2>2, <2>3, <3>1
    <2>4. CASE ~CouldTake(a, skill)
      BY <1>1, <2>1, <2>2, <2>4
    <2> QED BY <2>3, <2>4
  <1> HIDE DEF S
  <1>7. /\ IsFiniteSet(S) /\ Cardinality(S) = Cardinality(Colleagues)
        /\ \A r \in S : r.fit \in Int /\ r.agent \in Nat
        /\ \A r, s \in S : r.agent = s.agent => r = s
        /\ \A r \in S : r = Row(r.agent, skill) /\ r.agent \in Colleagues
        /\ \A r \in S : r.blocked = "none" <=> CouldTake(r.agent, skill)
        /\ \A r \in S : r.blocked = "none" => r.offerable /\ r.fit = SkillPoints * people[r.agent].skill[skill]
        /\ \A r \in S : r.blocked # "none" => r.fit = -1
    BY <1>4, <1>5, <1>6
  <1> QED BY <1>7 DEF S

\* Placed, those who can come first: they fill the first places.
LEMMA RosterAnswers ==
    ASSUME SkillPoints > 0, RosterTypes, NEW skill \in Skills, AskRoster(skill)
    PROVE  RosterIsTheFloor'
  <1> DEFINE S == {Row(a, skill) : a \in Colleagues}
             rows == Placed(S)
             n == Cardinality(Colleagues)
             able == {a \in Colleagues : CouldTake(a, skill)}
             who(a) == people[a].skill[skill]
             places == {i \in 1 .. n : rows[i].blocked = "none"}
  <1>1. /\ roster' = [skill |-> skill, rows |-> rows, choice |-> SystemChoice(rows)]
        /\ people' = people /\ presence' = presence
    BY DEF AskRoster
  <1>2. /\ IsFiniteSet(S) /\ Cardinality(S) = n
        /\ \A r \in S : r.fit \in Int /\ r.agent \in Nat
        /\ \A r, s \in S : r.agent = s.agent => r = s
        /\ \A r \in S : r = Row(r.agent, skill) /\ r.agent \in Colleagues
        /\ \A r \in S : r.blocked = "none" <=> CouldTake(r.agent, skill)
        /\ \A r \in S : r.blocked = "none" => r.offerable /\ r.fit = SkillPoints * who(r.agent)
        /\ \A r \in S : r.blocked # "none" => r.fit = -1
    BY RowsAre
  <1>3. \A a \in Colleagues : Row(a, skill) \in S /\ Row(a, skill).agent = a
    BY DEF Row
  <1>4. n \in Nat
    BY RosterAssumption, FS_CardinalityType
  <1> HIDE DEF S, n
  <1>5. /\ rows \in Bijection(1 .. n, S)
        /\ \A i, j \in 1 .. n : i < j => Above(rows[i], rows[j])
    BY <1>2, PlacedIs
  <1>6. DOMAIN rows = 1 .. Cardinality(S)
    BY DEF Placed
  <1> HIDE DEF rows
  <1>7. /\ rows \in [1 .. n -> S] /\ DOMAIN rows = 1 .. n /\ Len(rows) = n
        /\ \A i, j \in 1 .. n : rows[i] = rows[j] => i = j
        /\ \A r \in S : \E i \in 1 .. n : rows[i] = r
    <2>1. /\ rows \in [1 .. n -> S] /\ DOMAIN rows = 1 .. n
          /\ \A i, j \in 1 .. n : rows[i] = rows[j] => i = j
          /\ \A r \in S : \E i \in 1 .. n : rows[i] = r
      BY <1>5 DEF Bijection, Injection, Surjection, IsInjective
    <2>2. rows \in Seq(S)
      BY <1>4, <2>1
    <2>3. Len(rows) = n
      BY <1>4, <2>1, <2>2
    <2> QED BY <2>1, <2>3
  <1>8. {rows[i].agent : i \in DOMAIN rows} = Colleagues
    <2>1. \A i \in 1 .. n : rows[i].agent \in Colleagues
      BY <1>2, <1>7
    <2>2. \A a \in Colleagues : \E i \in 1 .. n : rows[i].agent = a
      BY <1>3, <1>7
    <2> QED BY <1>7, <2>1, <2>2
  <1>9. \A i \in 1 .. n : rows[i].blocked = "none" <=> rows[i].agent \in able
    BY <1>2, <1>7
  <1>10. \A a \in able : who(a) \in Nat
    BY FilterIsFloor
  <1>11. \A i \in places : /\ rows[i].agent \in able /\ rows[i].offerable
                           /\ rows[i].fit = SkillPoints * who(rows[i].agent) /\ rows[i].fit \in Nat
    <2> TAKE i \in places
    <2>1. /\ rows[i] \in S /\ rows[i].blocked = "none" /\ rows[i].agent \in able
          /\ rows[i].offerable /\ rows[i].fit = SkillPoints * who(rows[i].agent)
      BY <1>2, <1>7, <1>9
    <2>2. who(rows[i].agent) \in Nat
      BY <1>10, <2>1
    <2>3. SkillPoints * who(rows[i].agent) \in Nat
      BY <2>2, RosterAssumption
    <2> QED BY <2>1, <2>3
  <1>12. \A i, j \in 1 .. n : i < j /\ j \in places => i \in places /\ rows[i].fit >= rows[j].fit
    <2> TAKE i, j \in 1 .. n
    <2> HAVE i < j /\ j \in places
    <2>1. rows[i] \in S /\ rows[j] \in S /\ rows[i].fit \in Int /\ rows[j].fit \in Nat
      BY <1>2, <1>7, <1>11
    <2>2. rows[i].fit >= rows[j].fit
      BY <1>5, <2>1 DEF Above
    <2>3. rows[i].blocked = "none"
      BY <1>2, <2>1, <2>2
    <2> QED BY <2>2, <2>3
  <1>13. IsFiniteSet(places) /\ Cardinality(places) = Cardinality(able)
    <2> DEFINE agent == [i \in places |-> rows[i].agent]
    <2>1. agent \in [places -> able] /\ \A i \in places : agent[i] = rows[i].agent
      BY <1>11
    <2>2. \A i, j \in places : agent[i] = agent[j] => i = j
      BY <1>2, <1>7, <2>1
    <2>3. \A a \in able : \E i \in places : agent[i] = a
      <3> TAKE a \in able
      <3>1. PICK i \in 1 .. n : rows[i] = Row(a, skill)
        BY <1>3, <1>7
      <3>2. rows[i].agent = a
        BY <1>3, <3>1
      <3> QED BY <1>9, <2>1, <3>2
    <2>4. IsFiniteSet(places)
      <3>1. IsFiniteSet(1 .. n) /\ places \in SUBSET (1 .. n)
        BY <1>4, FS_Interval
      <3> QED BY <3>1, FS_Subset
    <2> HIDE DEF agent, places, able
    <2>5. agent \in Bijection(places, able)
      BY <2>1, <2>2, <2>3 DEF Bijection, Injection, Surjection, IsInjective
    <2>6. ExistsBijection(places, able)
      BY <2>5 DEF ExistsBijection
    <2> QED BY <2>4, <2>6, FS_Bijection
  <1>14. places = 1 .. Cardinality(able)
    <2>1. PICK m \in 0 .. n : places = 1 .. m
      <3>1. CASE places = {}
        <4>1. 0 \in 0 .. n /\ 1 .. 0 = {}
          BY <1>4
        <4> QED BY <3>1, <4>1
      <3>2. CASE places # {}
        <4>1. places \in SUBSET (0 .. n)
          BY <1>4
        <4>2. Max(places) \in places /\ \A i \in places : Max(places) >= i
          BY <1>4, <3>2, <4>1, GreatestIs
        <4>3. PICK m \in 1 .. n : m \in places /\ \A i \in places : m >= i
          BY <4>2
        <4>4. \A i \in 1 .. m : i \in places
          BY <1>4, <1>12, <4>3
        <4>5. places = 1 .. m
          BY <4>3, <4>4
        <4> QED BY <4>5
      <3> QED BY <3>1, <3>2
    <2>2. Cardinality(1 .. m) = m
      BY FS_Interval
    <2> QED BY <1>13, <2>1, <2>2
  <1>15. IF able = {} THEN SystemChoice(rows) = 0
         ELSE SystemChoice(rows) \in able /\ \A a \in able : who(a) <= who(SystemChoice(rows))
    <2>1. {i \in DOMAIN rows : rows[i].blocked = "none"} = places
      BY <1>7
    <2>2. able = {} <=> places = {}
      BY <1>3, <1>7, <1>9, <1>11
    <2>3. CASE places = {}
      BY <2>1, <2>2, <2>3 DEF SystemChoice
    <2>4. CASE places # {}
      <3>1. Min(places) \in places /\ \A i \in places : Min(places) <= i
        <4>1. places \in SUBSET Nat
          BY <1>4
        <4> HIDE DEF places
        <4> QED BY <2>4, <4>1, LeastIs
      <3>2. PICK f \in places : f = Min(places) /\ \A i \in places : f <= i
        BY <3>1
      <3>3. SystemChoice(rows) = rows[f].agent
        BY <2>1, <2>4, <3>2 DEF SystemChoice
      <3>4. ASSUME NEW a \in able PROVE who(a) <= who(rows[f].agent)
        <4>1. PICK i \in places : rows[i].agent = a
          BY <1>3, <1>7, <1>9
        <4>2. rows[f].fit >= rows[i].fit
          <5>1. f = i \/ f < i
            BY <3>2
          <5>2. CASE f = i
            BY <1>11, <5>2
          <5>3. CASE f < i
            BY <1>12, <5>3
          <5> QED BY <5>1, <5>2, <5>3
        <4>3. rows[f].agent \in able /\ who(rows[f].agent) \in Nat /\ who(a) \in Nat
          BY <1>10, <1>11
        <4>4. SkillPoints * who(rows[f].agent) >= SkillPoints * who(a)
          BY <1>11, <4>1, <4>2
        <4>5. who(rows[f].agent) >= who(a)
          <5> HIDE DEF who, able
          <5> QED BY <4>3, <4>4, MoreSkillMorePoints, RosterAssumption
        <4> QED BY <4>3, <4>5
      <3> QED BY <1>11, <2>2, <2>4, <3>3, <3>4
    <2> QED BY <2>3, <2>4
  <1>16. \A i \in 1 .. n : /\ rows[i].blocked = "none" <=> rows[i].agent \in able
                           /\ rows[i].blocked = "none" => rows[i].offerable
                           /\ i <= Cardinality(able) <=> rows[i].agent \in able
    BY <1>4, <1>9, <1>11, <1>14
  <1> HIDE DEF places
  <1>17. roster'.rows = rows /\ roster'.skill = skill /\ roster'.choice = SystemChoice(rows)
    BY <1>1
  <1> DEFINE chosen == SystemChoice(rows)
             floor == {a \in Colleagues : CouldTake(a, roster.skill)}'
  <1>18. floor = able /\ people' = people
    <2>1. \A a \in Colleagues : CouldTake(a, roster.skill)' <=> CouldTake(a, skill)
      BY <1>1, <1>17 DEF CouldTake
    <2> QED BY <1>1, <2>1
  <1> HIDE DEF able, chosen, floor
  <1>19. /\ {rows[i].agent : i \in DOMAIN rows} = Colleagues /\ Len(rows) = Cardinality(Colleagues)
         /\ \A i \in DOMAIN rows :
               /\ rows[i].blocked = "none" <=> rows[i].agent \in floor
               /\ rows[i].blocked = "none" => rows[i].offerable
               /\ i <= Cardinality(floor) <=> rows[i].agent \in floor
         /\ IF floor = {} THEN chosen = 0
            ELSE chosen \in floor /\ \A a \in floor : people'[a].skill[skill] <= people'[chosen].skill[skill]
    BY <1>7, <1>8, <1>15, <1>16, <1>18 DEF n, chosen
  <1> QED BY <1>17, <1>19, Zenon DEF RosterIsTheFloor, chosen, floor

LEMMA RosterFitsInit == Init => RosterFits
  <1>1. CASE RosterInit
    BY <1>1 DEF RosterInit, RosterFits, RosterTypes, RosterIsTheFloor
  <1>2. CASE NoRoster
    <2>1. people \in [Colleagues -> [skill : [Skills -> Proficiency], speaks : BOOLEAN]]
      BY <1>2, RosterAssumption DEF NoRoster
    <2> QED BY <1>2, <2>1 DEF NoRoster, RosterFits, RosterTypes, RosterIsTheFloor
  <1> QED BY <1>1, <1>2 DEF Init

LEMMA RosterFitsStep == ASSUME SkillPoints > 0 PROVE RosterFits /\ [RosterStep]_rosterVars => RosterFits'
  <1> SUFFICES ASSUME RosterFits, [RosterStep]_rosterVars PROVE RosterFits'
    OBVIOUS
  <1>1. ASSUME NEW skill \in Skills, AskRoster(skill) PROVE RosterFits'
    <2>1. RosterTypes'
      BY <1>1 DEF RosterFits, RosterTypes, AskRoster
    <2> QED BY <1>1, <2>1, RosterAnswers DEF RosterFits
  <1>2. CASE UNCHANGED rosterVars
    <2>1. people' = people /\ presence' = presence /\ roster' = roster
      BY <1>2 DEF rosterVars
    <2>2. RosterTypes'
      BY <2>1 DEF RosterFits, RosterTypes
    <2>3. RosterIsTheFloor'
      BY <2>1, Zenon DEF RosterFits, RosterIsTheFloor, CouldTake
    <2> QED BY <2>2, <2>3 DEF RosterFits
  <1> QED BY <1>1, <1>2 DEF RosterStep

\* Spec => []HandOverWorks, where the skill weighs anything at all: what the rail
\* offers the server takes (OptionsAlwaysHonoured), and the list of colleagues
\* names everybody once, those whom a tick could ring before all others, and
\* chooses the most skilled of them (internal_transfer_options, hard_filter,
\* score_fit), for a floor of any size.
THEOREM HandOverAlwaysWorks ==
    ASSUME SkillPoints > 0 PROVE Spec => []HandOverWorks
  <1>1. [Next]_vars => [RosterStep]_rosterVars
    BY DEF Next, vars, rosterVars
  <1>2. RosterFits /\ OptionsAreHonoured => HandOverWorks
    BY DEF RosterFits, HandOverWorks
  <1>3. RosterFits /\ [RosterStep]_rosterVars => RosterFits'
    BY RosterFitsStep
  <1> QED BY <1>1, <1>2, <1>3, RosterFitsInit, OptionsAlwaysHonoured, PTL DEF Spec

-----------------------------------------------------------------------------
(* The comparison of plans.                                                *)

TableTypes ==
    /\ market \in [Plans -> Stating]
    /\ \A l \in LinesHeld : book[l] # NoPolicy => book[l].line = l /\ book[l].states \in Stating
    /\ about \in {NoLine} \cup {l \in LinesHeld : book[l] # NoPolicy}
    /\ asked \in {NoLine, "here"}

\* The comparison is the one of this book and this market; it is built again, and
\* is the same, when it is pushed.
BuiltTable ==
    LET held == Baseline(ChosenLine)
    IN  [line |-> ChosenLine, held |-> held, plans |-> Ranked(held, Catalogue),
         marked |-> {p \in Plans : Holds(held) /\ p = held.code}]

Pushed(verified) ==
    LET held == Baseline(ChosenLine)
        columns == TableColumns(held, Ranked(held, Catalogue), verified)
    IN  [line |-> ChosenLine, columns |-> columns, hidden |-> Holds(held) /\ ~verified,
         best |-> [k \in Kinds |-> BestCell(columns, k)]]

TableFits ==
    /\ TableTypes
    /\ table # NotBuilt => table = BuiltTable
    /\ shown # NotBuilt => table # NotBuilt /\ \E verified \in BOOLEAN : shown = Pushed(verified)

\* Whom a comparison may be measured against.
Measure(held) == Holds(held) => held.states \in Stating

LEMMA ClippedIs ==
    ASSUME NEW a \in Int, NEW b \in Int, a <= b
    PROVE  Clipped(a) <= Clipped(b) /\ Clipped(a) \in Int /\ Clipped(b) \in Int
  <1>1. Scale \in Nat /\ -Scale \in Int /\ 2 * Scale \in Int
    BY TableAssumption
  <1>2. \A x \in Int : /\ Min({2 * Scale, x}) = IF 2 * Scale <= x THEN 2 * Scale ELSE x
                       /\ Min({2 * Scale, x}) \in Int
    BY <1>1, OfTwo
  <1>3. \A y \in Int : Max({-Scale, y}) = IF -Scale >= y THEN -Scale ELSE y
    BY <1>1, OfTwo
  <1>4. Min({2 * Scale, a}) <= Min({2 * Scale, b})
    BY <1>1, <1>2
  <1>5. \A x, y \in Int : x <= y => /\ Max({-Scale, x}) <= Max({-Scale, y})
                                    /\ Max({-Scale, x}) \in Int /\ Max({-Scale, y}) \in Int
    BY <1>1, <1>3
  <1> QED BY <1>2, <1>4, <1>5 DEF Clipped

\* The better figure is the better improvement, whichever way the attribute runs.
LEMMA ImprovementIs ==
    ASSUME NEW k \in Kinds, NEW held \in Nat, NEW x \in Nat, NEW y \in Nat,
           IF k \in LowerIsBetter THEN y <= x ELSE x <= y
    PROVE  /\ Improvement(k, held, x) <= Improvement(k, held, y)
           /\ Improvement(k, held, x) \in Int /\ Improvement(k, held, y) \in Int
  <1>1. Max({held, 1}) \in Nat \ {0}
    BY OfTwo
  <1> DEFINE c == Scale \div Max({held, 1})
  <1>2. c \in Nat
    <2> HIDE DEF c
    <2>1. \A d \in Nat \ {0} : Scale \div d \in Nat
      BY TableAssumption
    <2> QED BY <1>1, <2>1 DEF c
  <1> HIDE DEF c
  <1>3. x - held \in Int /\ y - held \in Int
    OBVIOUS
  <1>4. CASE k \in LowerIsBetter
    <2>1. (y - held) * c <= (x - held) * c /\ (y - held) * c \in Int /\ (x - held) * c \in Int
      BY <1>2, <1>3, <1>4, TimesMonotone
    <2>2. -((x - held) * c) <= -((y - held) * c) /\ -((x - held) * c) \in Int /\ -((y - held) * c) \in Int
      BY <2>1
    <2>3. /\ Clipped(-((x - held) * c)) <= Clipped(-((y - held) * c))
          /\ Clipped(-((x - held) * c)) \in Int /\ Clipped(-((y - held) * c)) \in Int
      BY <2>2, ClippedIs
    <2> QED BY <1>4, <2>3 DEF Improvement, c
  <1>5. CASE k \notin LowerIsBetter
    <2>1. (x - held) * c <= (y - held) * c /\ (y - held) * c \in Int /\ (x - held) * c \in Int
      BY <1>2, <1>3, <1>5, TimesMonotone
    <2>2. /\ Clipped((x - held) * c) <= Clipped((y - held) * c)
          /\ Clipped((x - held) * c) \in Int /\ Clipped((y - held) * c) \in Int
      BY <2>1, ClippedIs
    <2> QED BY <1>5, <2>2 DEF Improvement, c
  <1> QED BY <1>4, <1>5

LEMMA StatedIs ==
    ASSUME NEW states \in Stating, NEW k \in Kinds
    PROVE  states[k] \in Int /\ (states[k] # NotStated => states[k] \in Figures /\ states[k] \in Nat)
  <1>1. states[k] \in Figures \cup {NotStated}
    BY DEF Stating
  <1>2. Figures \subseteq Nat
    BY TableAssumption
  <1>3. NotStated \in Int
    BY DEF NotStated
  <1>4. CASE states[k] = NotStated
    BY <1>3, <1>4
  <1>5. CASE states[k] # NotStated
    <2>1. states[k] \in Figures
      BY <1>1, <1>5
    <2>2. states[k] \in Nat
      BY <1>2, <2>1
    <2>3. states[k] \in Int
      BY <2>2
    <2> QED BY <2>1, <2>2, <2>3
  <1> QED BY <1>4, <1>5

LEMMA GainIs ==
    ASSUME TableTypes, NEW held, held.states \in Stating, NEW p \in Plans, NEW q \in Plans, NEW k \in Kinds,
           market[p][k] = NotStated <=> market[q][k] = NotStated,
           IF k \in LowerIsBetter THEN market[p][k] <= market[q][k] ELSE market[p][k] >= market[q][k]
    PROVE  Gain(held, q, k) <= Gain(held, p, k) /\ Gain(held, p, k) \in Int /\ Gain(held, q, k) \in Int
  <1>1. market[p] \in Stating /\ market[q] \in Stating
    BY DEF TableTypes
  <1>2. CASE held.states[k] = NotStated \/ market[p][k] = NotStated
    BY <1>2 DEF Gain
  <1>3. CASE ~(held.states[k] = NotStated \/ market[p][k] = NotStated)
    <2>1. held.states[k] \in Nat /\ market[p][k] \in Nat /\ market[q][k] \in Nat
      BY <1>1, <1>3, StatedIs
    <2>2. /\ Improvement(k, held.states[k], market[q][k]) <= Improvement(k, held.states[k], market[p][k])
          /\ Improvement(k, held.states[k], market[q][k]) \in Int
          /\ Improvement(k, held.states[k], market[p][k]) \in Int
      BY <2>1, ImprovementIs
    <2> QED BY <1>3, <2>2 DEF Gain
  <1> QED BY <1>2, <1>3

LEMMA PositionIs ==
    ASSUME TableTypes, NEW among \in SUBSET Plans, NEW p \in among, NEW q \in among, NEW k \in Kinds,
           market[p][k] = NotStated <=> market[q][k] = NotStated,
           IF k \in LowerIsBetter THEN market[p][k] <= market[q][k] ELSE market[p][k] >= market[q][k]
    PROVE  /\ Position(among, q, k) <= Position(among, p, k)
           /\ Position(among, p, k) \in Int /\ Position(among, q, k) \in Int
  <1> DEFINE stated == {market[r][k] : r \in {s \in among : market[s][k] # NotStated}}
             c == Scale \div (Max(stated) - Min(stated))
             place(r) == (market[r][k] - Min(stated)) * c
  <1>1. \A r \in Plans : market[r] \in Stating
    BY DEF TableTypes
  <1>2. CASE market[p][k] = NotStated \/ Cardinality(stated) < 2
    <2>1. Position(among, p, k) = 0 /\ Position(among, q, k) = 0
      BY <1>2 DEF Position
    <2> QED BY <2>1
  <1>3. CASE ~(market[p][k] = NotStated \/ Cardinality(stated) < 2)
    <2>1. stated \in SUBSET Nat /\ market[p][k] \in stated /\ market[q][k] \in stated
      BY <1>1, <1>3, StatedIs
    <2>2. IsFiniteSet(stated)
      <3> DEFINE T == {s \in among : market[s][k] # NotStated}
                 figure == [r \in T |-> market[r][k]]
      <3>1. IsFiniteSet(T)
        <4>1. T \in SUBSET Plans /\ IsFiniteSet(Plans)
          BY TableAssumption
        <4> HIDE DEF T
        <4> QED BY <4>1, FS_Subset
      <3>2. figure \in Surjection(T, stated)
        BY DEF Surjection
      <3> HIDE DEF T, stated, figure
      <3> QED BY <3>1, <3>2, FS_Surjection
    <2> HIDE DEF stated
    <2>3. PICK low \in Nat : low = Min(stated) /\ low \in stated /\ \A x \in stated : low <= x
      <3>1. stated \in SUBSET Int /\ stated # {}
        BY <2>1
      <3> QED BY <2>1, <2>2, <3>1, FiniteBounds
    <2>4. PICK high \in Nat : high = Max(stated) /\ high \in stated /\ \A x \in stated : high >= x
      <3>1. stated \in SUBSET Int /\ stated # {}
        BY <2>1
      <3> QED BY <2>1, <2>2, <3>1, FiniteBounds
    <2>5. high - low \in Nat \ {0}
      <3>1. high # low
        <4>1. SUFFICES ASSUME high = low PROVE FALSE
          OBVIOUS
        <4>2. \A x \in stated : x = low
          <5> TAKE x \in stated
          <5>1. x \in Nat /\ low <= x /\ x <= low
            BY <2>1, <2>3, <2>4, <4>1
          <5> QED BY <5>1
        <4>4. stated = {low}
          BY <2>3, <4>2
        <4>3. Cardinality(stated) = 1
          BY <4>4, FS_Singleton
        <4> QED BY <1>3, <4>3 DEF stated
      <3>2. low <= high
        BY <2>3, <2>4
      <3> QED BY <3>1, <3>2
    <2>6. c \in Nat
      <3>1. \A d \in Nat \ {0} : Scale \div d \in Nat
        BY TableAssumption
      <3> QED BY <2>3, <2>4, <2>5, <3>1
    <2> HIDE DEF c
    <2>7. market[p][k] \in Nat /\ market[q][k] \in Nat /\ low \in Nat
      BY <2>1
    <2>8. CASE k \in LowerIsBetter
      <3>1. /\ (market[p][k] - low) * c <= (market[q][k] - low) * c
            /\ (market[p][k] - low) * c \in Int /\ (market[q][k] - low) * c \in Int
        <4>1. market[p][k] - low \in Int /\ market[q][k] - low \in Int /\ market[p][k] - low <= market[q][k] - low
          BY <2>7, <2>8
        <4> QED BY <2>6, <4>1, TimesMonotone
      <3>2. place(p) <= place(q) /\ place(p) \in Int /\ place(q) \in Int
        BY <2>3, <3>1
      <3>3. Position(among, p, k) = Scale - place(p) /\ Position(among, q, k) = Scale - place(q)
        BY <1>3, <2>8 DEF Position, stated, c
      <3> HIDE DEF place
      <3> QED BY <3>2, <3>3, TableAssumption
    <2>9. CASE k \notin LowerIsBetter
      <3>1. /\ (market[q][k] - low) * c <= (market[p][k] - low) * c
            /\ (market[p][k] - low) * c \in Int /\ (market[q][k] - low) * c \in Int
        <4>1. market[p][k] - low \in Int /\ market[q][k] - low \in Int /\ market[q][k] - low <= market[p][k] - low
          BY <2>7, <2>9
        <4> QED BY <2>6, <4>1, TimesMonotone
      <3>2. place(q) <= place(p) /\ place(p) \in Int /\ place(q) \in Int
        BY <2>3, <3>1
      <3>3. Position(among, p, k) = place(p) /\ Position(among, q, k) = place(q)
        BY <1>3, <2>9 DEF Position, stated, c
      <3> HIDE DEF place
      <3> QED BY <3>2, <3>3
    <2> QED BY <2>8, <2>9
  <1> QED BY <1>2, <1>3

\* A score is a sum of what each attribute is worth.
LEMMA PointsAre ==
    ASSUME TableTypes, NEW held, Measure(held), NEW p \in Candidates(held), NEW q \in Candidates(held),
           AtLeastAsGood(p, q)
    PROVE  Points(held, p) >= Points(held, q) /\ Points(held, p) \in Int /\ Points(held, q) \in Int
  <1> DEFINE gain(r, k) == IF Holds(held) THEN Gain(held, r, k) ELSE Position(Candidates(held), r, k)
             w == [k \in Kinds |-> Weight[k] * gain(q, k)]
             v == [k \in Kinds |-> Weight[k] * gain(p, k)]
  <1>1. Candidates(held) \in SUBSET Plans
    BY DEF Candidates
  <1>2. ASSUME NEW k \in Kinds
        PROVE  gain(q, k) <= gain(p, k) /\ gain(p, k) \in Int /\ gain(q, k) \in Int
    <2>1. /\ market[p][k] = NotStated <=> market[q][k] = NotStated
          /\ IF k \in LowerIsBetter THEN market[p][k] <= market[q][k] ELSE market[p][k] >= market[q][k]
      BY DEF AtLeastAsGood
    <2>2. CASE Holds(held)
      <3>1. held.states \in Stating /\ p \in Plans /\ q \in Plans
        BY <1>1, <2>2 DEF Measure
      <3>2. Gain(held, q, k) <= Gain(held, p, k) /\ Gain(held, p, k) \in Int /\ Gain(held, q, k) \in Int
        BY <2>1, <3>1, GainIs
      <3> QED BY <2>2, <3>2
    <2>3. CASE ~Holds(held)
      <3>1. /\ Position(Candidates(held), q, k) <= Position(Candidates(held), p, k)
            /\ Position(Candidates(held), p, k) \in Int /\ Position(Candidates(held), q, k) \in Int
        BY <1>1, <2>1, PositionIs
      <3> QED BY <2>3, <3>1
    <2> QED BY <2>2, <2>3
  <1> HIDE DEF gain
  <1>3. ASSUME NEW k \in Kinds
        PROVE  Weight[k] * gain(q, k) <= Weight[k] * gain(p, k) /\ Weight[k] * gain(q, k) \in Int
               /\ Weight[k] * gain(p, k) \in Int
    <2>1. Weight[k] \in Nat
      BY TableAssumption
    <2> QED BY <1>2, <2>1, TimesMonotone
  <1>4. w \in [Kinds -> Int] /\ v \in [Kinds -> Int] /\ \A k \in Kinds : w[k] <= v[k]
    BY <1>3
  <1>5. w = Worth(held, q) /\ v = Worth(held, p)
    BY DEF Worth, gain
  <1>6. IsFiniteSet(Kinds)
    BY TableAssumption
  <1> HIDE DEF w, v
  <1>7. SumFunction(w) <= SumFunction(v) /\ SumFunction(w) \in Int /\ SumFunction(v) \in Int
    BY <1>4, <1>6, SumMonotone
  <1> QED BY <1>5, <1>7 DEF Points

LEMMA PointsAreInt ==
    ASSUME TableTypes, NEW held, Measure(held), NEW p \in Candidates(held)
    PROVE  Points(held, p) \in Int
  <1>1. \A k \in Kinds : market[p][k] \in Int
    BY StatedIs DEF TableTypes, Candidates
  <1>2. AtLeastAsGood(p, p)
    BY <1>1 DEF AtLeastAsGood
  <1> QED BY <1>2, PointsAre

LEMMA CandidatesAre ==
    ASSUME NEW held
    PROVE  IsFiniteSet(Candidates(held)) /\ Candidates(held) \in SUBSET Nat /\ Candidates(held) \in SUBSET Plans
  <1>1. Candidates(held) \in SUBSET Plans
    BY DEF Candidates
  <1> QED BY <1>1, TableAssumption, FS_Subset

\* Whatever the order of a listing, it lists every plan.
LEMMA ListingsAre ==
    ASSUME NEW listed \in Listings
    PROVE  {listed[i] : i \in DOMAIN listed} = Plans
  <1> DEFINE n == Cardinality(Plans)
  <1>1. n \in Nat /\ IsFiniteSet(Plans)
    BY TableAssumption, FS_CardinalityType
  <1>2. IsFiniteSet(1 .. n) /\ Cardinality(1 .. n) = n
    BY <1>1, FS_Interval
  <1>3. listed \in [1 .. n -> Plans] /\ \A i, j \in 1 .. n : listed[i] = listed[j] => i = j
    BY DEF Listings
  <1>4. listed \in Injection(1 .. n, Plans)
    BY <1>3 DEF Injection, IsInjective
  <1>5. listed \in Surjection(1 .. n, Plans)
    BY <1>1, <1>2, <1>4, FS_Injection
  <1> QED BY <1>3, <1>5 DEF Surjection

\* There is one in the order of the codes.
LEMMA CatalogueIs == Catalogue \in Listings
  <1> DEFINE n == Cardinality(Plans)
             R == {o \in Plans \X Plans : o[1] < o[2]}
             Rank(r) == Cardinality({s \in Plans : <<s, r>> \in R})
             c == [i \in 1 .. n |-> CHOOSE p \in Plans : Rank(p) = i - 1]
  <1>1. \A p, q \in Plans : <<p, q>> \in R <=> p < q
    OBVIOUS
  <1>2. Plans \in SUBSET Nat /\ IsFiniteSet(Plans) /\ n \in Nat
    BY TableAssumption, FS_CardinalityType
  <1> HIDE DEF R
  <1>3. /\ \A r, s \in Plans : r = s \/ <<r, s>> \in R \/ <<s, r>> \in R
        /\ \A r, s, t \in Plans : <<r, s>> \in R /\ <<s, t>> \in R => <<r, t>> \in R
        /\ \A r \in Plans : <<r, r>> \notin R
    BY <1>1, <1>2
  <1>4. /\ \A i \in 1 .. n : \E r \in Plans : Rank(r) = i - 1
        /\ \A r, s \in Plans : Rank(r) < Rank(s) <=> <<r, s>> \in R
    BY <1>2, <1>3, RanksAre
  <1> HIDE DEF n, Rank
  <1>5. \A i \in 1 .. n : c[i] \in Plans /\ Rank(c[i]) = i - 1
    BY <1>4
  <1>6. c \in [1 .. n -> Plans] /\ DOMAIN c = 1 .. n
    BY <1>5
  <1> HIDE DEF c
  <1>7. \A i, j \in 1 .. n : i < j => c[i] < c[j]
    <2> TAKE i, j \in 1 .. n
    <2> HAVE i < j
    <2>1. i - 1 < j - 1
      BY <1>2
    <2> QED BY <1>1, <1>4, <1>5, <2>1
  <1>8. \A i, j \in 1 .. n : c[i] = c[j] => i = j
    <2> TAKE i, j \in 1 .. n
    <2> HAVE c[i] = c[j]
    <2>1. i - 1 = j - 1
      BY <1>5
    <2> QED BY <1>2, <2>1
  <1>9. c \in Listings /\ \A i, j \in DOMAIN c : i < j => c[i] < c[j]
    BY <1>6, <1>7, <1>8 DEF Listings, n
  <1> QED BY <1>9 DEF Catalogue

\* What is ranked is a candidate, and how the plans are listed is not looked at.
LEMMA RankedIs ==
    ASSUME TableTypes, NEW held, Measure(held), NEW listed \in Listings
    PROVE  /\ Ranked(held, listed) = Ranked(held, Catalogue)
           /\ Ranked(held, listed) \in Seq(Plans)
           /\ \A i \in DOMAIN Ranked(held, listed) : Ranked(held, listed)[i] \in Candidates(held)
  <1> DEFINE C == Candidates(held)
             R == {o \in C \X C : Before(held, listed, o[1], o[2])}
             Rank(p) == Cardinality({q \in C : Before(held, listed, q, p)})
             m == Min({Cardinality(C), MaxCandidates})
  <1>1. IsFiniteSet(C) /\ C \in SUBSET Nat /\ C \in SUBSET Plans /\ Cardinality(C) \in Nat
    BY CandidatesAre, FS_CardinalityType
  <1>2. \A p \in C : Points(held, p) \in Int
    BY PointsAreInt
  <1>3. \A l \in Listings : {l[i] : i \in DOMAIN l} \cap C = C
    BY <1>1, ListingsAre
  <1> HIDE DEF C
  <1>4. \A l \in Listings : Ranked(held, l) = [i \in 1 .. m |-> CHOOSE p \in C : Rank(p) = i - 1]
    <2> TAKE l \in Listings
    <2>1. \A p, q : Before(held, l, q, p) <=> Before(held, listed, q, p)
      BY DEF Before
    <2>2. Ranked(held, l) =
             [i \in 1 .. m |-> CHOOSE p \in C : Cardinality({q \in C : Before(held, l, q, p)}) = i - 1]
      <3> DEFINE all == {l[i] : i \in DOMAIN l} \cap Candidates(held)
      <3>1. Ranked(held, l) =
               [i \in 1 .. Min({Cardinality(all), MaxCandidates}) |->
                   CHOOSE p \in all : Cardinality({q \in all : Before(held, l, q, p)}) = i - 1]
        BY DEF Ranked
      <3>2. all = C
        BY <1>3 DEF C
      <3> HIDE DEF all
      <3> QED BY <3>1, <3>2
    <2>3. \A p : {q \in C : Before(held, l, q, p)} = {q \in C : Before(held, listed, q, p)}
      BY <2>1
    <2> QED BY <2>2, <2>3
  <1>5. Ranked(held, listed) = Ranked(held, Catalogue)
    BY <1>4, CatalogueIs
  <1>6. \A r, s \in C : <<r, s>> \in R <=> Before(held, listed, r, s)
    OBVIOUS
  <1> HIDE DEF R
  <1>7. /\ \A r, s \in C : r = s \/ <<r, s>> \in R \/ <<s, r>> \in R
        /\ \A r, s, t \in C : <<r, s>> \in R /\ <<s, t>> \in R => <<r, t>> \in R
        /\ \A r \in C : <<r, r>> \notin R
    BY <1>1, <1>2, <1>6 DEF Before
  <1>8. \A r \in C : Cardinality({s \in C : <<s, r>> \in R}) = Rank(r)
    <2> TAKE r \in C
    <2>1. {s \in C : <<s, r>> \in R} = {s \in C : Before(held, listed, s, r)}
      BY <1>6
    <2> QED BY <2>1
  <1>9. \A i \in 1 .. Cardinality(C) : \E r \in C : Rank(r) = i - 1
    <2>1. \A i \in 1 .. Cardinality(C) : \E r \in C : Cardinality({s \in C : <<s, r>> \in R}) = i - 1
      BY <1>1, <1>7, RanksAre
    <2> HIDE DEF Rank
    <2> QED BY <1>8, <2>1
  <1>10. m \in Nat /\ m <= Cardinality(C)
    BY <1>1, OfTwo, TableAssumption
  <1>11. \A i \in 1 .. m : Ranked(held, listed)[i] \in C
    <2> TAKE i \in 1 .. m
    <2>1. i \in 1 .. Cardinality(C)
      BY <1>1, <1>10
    <2>2. Ranked(held, listed)[i] = CHOOSE p \in C : Rank(p) = i - 1
      <3> HIDE DEF Rank, m
      <3> QED BY <1>4
    <2> QED BY <1>9, <2>1, <2>2
  <1>12. DOMAIN Ranked(held, listed) = 1 .. m /\ Ranked(held, listed) \in [1 .. m -> Plans]
    <2> HIDE DEF Rank, m
    <2> QED BY <1>1, <1>4, <1>11
  <1>13. Ranked(held, listed) \in Seq(Plans)
    <2> HIDE DEF m
    <2> QED BY <1>10, <1>12
  <1> QED BY <1>5, <1>11, <1>12, <1>13 DEF C

\* A score below what small losses add up to has a loss in it that is named.
LEMMA LossIsNamed ==
    ASSUME TableTypes, NEW held, Measure(held), Holds(held), NEW p \in Candidates(held),
           Points(held, p) < Unnoticed
    PROVE  Named(held, p, "worse") # {}
  <1> DEFINE w == [k \in Kinds |-> Weight[k] * Min({0, 1 - Material})]
             v == [k \in Kinds |-> Weight[k] * Gain(held, p, k)]
             of == {k \in Kinds : Direction(held, p, k) = "worse"}
  <1>1. p \in Plans /\ held.states \in Stating /\ market[p] \in Stating
    BY DEF Candidates, Measure, TableTypes
  <1>2. ASSUME NEW k \in Kinds PROVE Gain(held, p, k) \in Int
    <2>1. market[p][k] \in Int
      BY <1>1, StatedIs
    <2> QED BY <1>1, <2>1, GainIs
  <1>3. Min({0, 1 - Material}) = (IF 0 <= 1 - Material THEN 0 ELSE 1 - Material) /\ Material \in Nat
    BY OfTwo, TableAssumption
  <1>4. PICK lost \in Kinds : ~(Min({0, 1 - Material}) <= Gain(held, p, lost))
    <2>1. SUFFICES ASSUME \A k \in Kinds : Min({0, 1 - Material}) <= Gain(held, p, k) PROVE FALSE
      OBVIOUS
    <2>2. ASSUME NEW k \in Kinds
          PROVE  /\ Weight[k] * Min({0, 1 - Material}) <= Weight[k] * Gain(held, p, k)
                 /\ Weight[k] * Min({0, 1 - Material}) \in Int /\ Weight[k] * Gain(held, p, k) \in Int
      <3>1. Weight[k] \in Nat /\ Min({0, 1 - Material}) \in Int
        BY <1>3, TableAssumption
      <3>2. Min({0, 1 - Material}) <= Gain(held, p, k)
        BY <2>1
      <3> QED BY <1>2, <3>1, <3>2, TimesMonotone
    <2>3. w \in [Kinds -> Int] /\ v \in [Kinds -> Int] /\ \A k \in Kinds : w[k] <= v[k]
      BY <2>2
    <2>4. SumFunction(w) = Unnoticed
      BY DEF Unnoticed
    <2>5. v = Worth(held, p)
      BY DEF Worth
    <2> HIDE DEF w, v
    <2>6. SumFunction(w) <= SumFunction(v) /\ SumFunction(w) \in Int /\ SumFunction(v) \in Int
      BY <2>3, SumMonotone, TableAssumption
    <2> QED BY <2>4, <2>5, <2>6 DEF Points
  <1>5. lost \in of
    <2>1. Gain(held, p, lost) < 0 /\ -Gain(held, p, lost) >= Material /\ Gain(held, p, lost) \in Int
      BY <1>2, <1>3, <1>4
    <2>2. held.states[lost] # NotStated /\ market[p][lost] # NotStated
      BY <2>1 DEF Gain
    <2>3. ~(-Gain(held, p, lost) < Material) /\ ~(Gain(held, p, lost) > 0)
      BY <1>3, <2>1
    <2> QED BY <2>2, <2>3 DEF Direction
  <1> DEFINE gap == [k \in of |-> Weight[k] * Gain(held, p, k)]
  <1>6. gap \in [of -> Int]
    <2>1. \A k \in Kinds : Weight[k] * Gain(held, p, k) \in Int
      <3> TAKE k \in Kinds
      <3>1. Weight[k] \in Nat /\ Gain(held, p, k) \in Int
        BY <1>2, TableAssumption
      <3> QED BY <3>1
    <2> QED BY <2>1
  <1>7. IsFiniteSet(of)
    <2>1. of \in SUBSET Kinds /\ IsFiniteSet(Kinds)
      BY TableAssumption
    <2> HIDE DEF of
    <2> QED BY <2>1, FS_Subset
  <1>8. \A k \in of : gap[k] = Weight[k] * Gain(held, p, k)
    OBVIOUS
  <1>9. Named(held, p, "worse") =
           {k \in of : \A j \in of : Weight[k] * Gain(held, p, k) <= Weight[j] * Gain(held, p, j)}
    BY DEF Named
  <1> HIDE DEF of, gap
  <1>10. PICK k \in of : \A j \in of : gap[k] <= gap[j]
    BY <1>5, <1>6, <1>7, SomeLeast
  <1>11. k \in Named(held, p, "worse")
    BY <1>8, <1>9, <1>10
  <1> QED BY <1>11

\* The marked cell of a row is the best of those that state a figure.
LEMMA BestCellIs ==
    ASSUME NEW columns \in Seq(Stating), NEW k \in Kinds
    PROVE  LET stated == {i \in 1 .. Len(columns) : columns[i][k] # NotStated}
               best == BestCell(columns, k)
           IN  IF stated = {} THEN best = 0
               ELSE /\ best \in stated
                    /\ \A i \in stated : IF k \in LowerIsBetter THEN columns[best][k] <= columns[i][k]
                                                                ELSE columns[best][k] >= columns[i][k]
  <1> DEFINE stated == {i \in 1 .. Len(columns) : columns[i][k] # NotStated}
             best == {i \in stated : \A j \in stated : IF k \in LowerIsBetter
                          THEN columns[i][k] <= columns[j][k] ELSE columns[i][k] >= columns[j][k]}
             f == [i \in stated |-> IF k \in LowerIsBetter THEN columns[i][k] ELSE -columns[i][k]]
  <1>1. \A i \in stated : columns[i][k] \in Int
    BY StatedIs
  <1>2. Len(columns) \in Nat /\ IsFiniteSet(stated)
    <2>1. Len(columns) \in Nat /\ stated \in SUBSET (1 .. Len(columns))
      OBVIOUS
    <2>2. IsFiniteSet(1 .. Len(columns))
      BY <2>1, FS_Interval
    <2> HIDE DEF stated
    <2> QED BY <2>1, <2>2, FS_Subset
  <1>3. best \in SUBSET stated /\ stated \in SUBSET Nat
    BY <1>2
  <1>4. BestCell(columns, k) = IF best = {} THEN 0 ELSE Min(best)
    BY DEF BestCell
  <1>5. CASE stated = {}
    BY <1>4, <1>5
  <1>6. CASE stated # {}
    <2>1. f \in [stated -> Int] /\ \A i \in stated : f[i] = IF k \in LowerIsBetter THEN columns[i][k] ELSE -columns[i][k]
      <3> HIDE DEF stated
      <3> QED BY <1>1
    <2> HIDE DEF f, stated
    <2>2. PICK i \in stated : \A j \in stated : f[i] <= f[j]
      BY <1>2, <1>6, <2>1, SomeLeast
    <2>3. i \in best
      <3>1. ASSUME NEW j \in stated
            PROVE  IF k \in LowerIsBetter THEN columns[i][k] <= columns[j][k] ELSE columns[i][k] >= columns[j][k]
        <4>1. f[i] <= f[j] /\ columns[i][k] \in Int /\ columns[j][k] \in Int
          BY <1>1, <2>2
        <4> QED BY <2>1, <4>1
      <3> QED BY <3>1
    <2>4. Min(best) \in best
      <3>1. best \in SUBSET Nat /\ best # {}
        BY <1>3, <2>3
      <3> HIDE DEF best
      <3> QED BY <3>1, LeastIs
    <2>5. BestCell(columns, k) \in best
      <3> HIDE DEF best
      <3> QED BY <1>4, <2>3, <2>4
    <2> QED BY <1>6, <2>5 DEF stated
  <1> QED BY <1>5, <1>6

LEMMA TableFitsInit == Init => TableFits
  <1>1. CASE TableInit
    <2>1. ASSUME NEW l \in LinesHeld, book[l] # NoPolicy PROVE book[l].line = l /\ book[l].states \in Stating
      <3>1. book[l] \in [code : {Outside, Min(Plans)}, line : LinesHeld, states : Stating]
        BY <1>1, <2>1 DEF TableInit
      <3>2. book[l].line = l
        BY <1>1, <2>1 DEF TableInit
      <3> QED BY <3>1, <3>2
    <2> QED BY <1>1, <2>1 DEF TableInit, TableFits, TableTypes
  <1>2. CASE NoTable
    <2>1. market \in [Plans -> Stating]
      BY <1>2 DEF NoTable, Stating
    <2> QED BY <1>2, <2>1 DEF NoTable, TableFits, TableTypes
  <1> QED BY <1>1, <1>2 DEF Init

LEMMA MeasureIs ==
    ASSUME TableTypes
    PROVE  LET held == Baseline(ChosenLine) IN
           /\ ChosenLine \in LinesHeld /\ Measure(held)
           /\ Holds(held) => held.line = ChosenLine
           /\ ~Holds(held) => book[ChosenLine] = NoPolicy
  <1>1. ChosenLine \in LinesHeld
    BY DEF TableTypes, ChosenLine, LinesHeld
  <1>2. Baseline(ChosenLine) = book[ChosenLine]
    BY DEF Baseline
  <1> QED BY <1>1, <1>2 DEF TableTypes, Measure, Holds

\* What the comparison is made of does not move, so what is pushed is what was built.
LEMMA TableFitsStep == TableFits /\ [TableStep]_tableVars => TableFits'
  <1> SUFFICES ASSUME TableFits, [TableStep]_tableVars PROVE TableFits'
    OBVIOUS
  <1>1. /\ market' = market /\ book' = book /\ about' = about /\ asked' = asked
        /\ \/ table' = table /\ shown' = shown
           \/ shown' = shown /\ table = NotBuilt /\ table' = BuiltTable
           \/ table' = table /\ table # NotBuilt /\ \E verified \in BOOLEAN : shown' = Pushed(verified)
    BY DEF TableStep, Compare, PushTable, tableVars, BuiltTable, Pushed
  <1>2. TableTypes'
    BY <1>1 DEF TableFits, TableTypes
  <1>3. BuiltTable' = BuiltTable /\ \A verified : Pushed(verified)' = Pushed(verified)
    <2>1. ChosenLine' = ChosenLine /\ Baseline(ChosenLine)' = Baseline(ChosenLine)
      BY <1>1 DEF ChosenLine, Baseline
    <2>2. \A held, p, k : Gain(held, p, k)' = Gain(held, p, k)
      BY <1>1 DEF Gain
    <2>3. \A among, p, k : Position(among, p, k)' = Position(among, p, k)
      <3> TAKE among, p, k
      <3>1. market' = market
        BY <1>1
      <3> QED BY <3>1 DEF Position
    <2>4. \A held, p : Points(held, p)' = Points(held, p)
      <3> TAKE held, p
      <3>1. Worth(held, p)' = Worth(held, p)
        BY <2>2, <2>3, Zenon DEF Worth
      <3> QED BY <3>1 DEF Points
    <2>5. \A held, listed : Ranked(held, listed)' = Ranked(held, listed)
      <3> TAKE held, listed
      <3>1. \A p, q : Before(held, listed, p, q)' <=> Before(held, listed, p, q)
        BY <2>4 DEF Before
      <3> DEFINE all == {listed[i] : i \in DOMAIN listed} \cap Candidates(held)
      <3>2. \A p : {q \in all : Before(held, listed, q, p)}' = {q \in all : Before(held, listed, q, p)}
        BY <3>1
      <3>3. Ranked(held, listed) =
               [i \in 1 .. Min({Cardinality(all), MaxCandidates}) |->
                   CHOOSE p \in all : Cardinality({q \in all : Before(held, listed, q, p)}) = i - 1]
        BY DEF Ranked
      <3>4. Ranked(held, listed)' =
               [i \in 1 .. Min({Cardinality(all), MaxCandidates}) |->
                   CHOOSE p \in all : Cardinality({q \in all : Before(held, listed, q, p)'}) = i - 1]
        BY DEF Ranked, Candidates, Holds
      <3> HIDE DEF all
      <3> QED BY <3>2, <3>3, <3>4
    <2>6. \A held, plans, verified : TableColumns(held, plans, verified)' = TableColumns(held, plans, verified)
      BY <1>1, Zenon DEF TableColumns
    <2> QED BY <2>1, <2>5, <2>6, Zenon DEF BuiltTable, Pushed
  <1>4. table' # NotBuilt => table' = BuiltTable'
    BY <1>1, <1>3 DEF TableFits
  <1>5. BuiltTable # NotBuilt
    <2>1. BuiltTable.line \in LinesHeld
      BY MeasureIs DEF TableFits, BuiltTable
    <2>2. NotBuilt.line \notin LinesHeld
      BY DEF NotBuilt, NoLine, LinesHeld
    <2> QED BY <2>1, <2>2
  <1>6. shown' # NotBuilt => table' # NotBuilt /\ \E verified \in BOOLEAN : shown' = Pushed(verified)'
    BY <1>1, <1>3, <1>5 DEF TableFits
  <1> QED BY <1>2, <1>4, <1>6 DEF TableFits

LEMMA FitRankingIsFair == TableFits => RankingIsFair
  <1> SUFFICES ASSUME TableFits, table # NotBuilt PROVE RankingIsFair
    BY DEF RankingIsFair
  <1> DEFINE held == Baseline(ChosenLine)
             plans == Ranked(held, Catalogue)
  <1>1. /\ table.line = ChosenLine /\ table.held = held /\ table.plans = plans
        /\ table.marked = {p \in Plans : Holds(held) /\ p = held.code}
    BY DEF TableFits, BuiltTable
  <1>2. TableTypes
    BY DEF TableFits
  <1>3. /\ Measure(held)
        /\ Holds(held) => held.line = ChosenLine
        /\ ~Holds(held) => book[ChosenLine] = NoPolicy
    BY <1>2, MeasureIs
  <1> HIDE DEF held
  <1>4. \A listed \in Listings : Ranked(held, listed) = plans
    BY <1>2, <1>3, RankedIs
  <1>5. \A p, q \in Candidates(held) : AtLeastAsGood(p, q) => Points(held, p) >= Points(held, q)
    BY <1>2, <1>3, PointsAre
  <1>6. ASSUME NEW i \in DOMAIN plans
        PROVE  /\ plans[i] \notin table.marked
               /\ Points(held, plans[i]) < Unnoticed /\ Holds(held) => Named(held, plans[i], "worse") # {}
    <2>1. plans[i] \in Candidates(held)
      BY <1>2, <1>3, CatalogueIs, RankedIs
    <2> HIDE DEF plans
    <2>2. plans[i] \notin table.marked
      BY <1>1, <2>1 DEF Candidates
    <2> QED BY <1>2, <1>3, <2>1, <2>2, LossIsNamed
  <1> HIDE DEF plans
  <1> QED BY <1>1, <1>3, <1>4, <1>5, <1>6 DEF RankingIsFair

LEMMA FitTableIsTrue == TableFits => TableIsTrue
  <1> SUFFICES ASSUME TableFits, shown # NotBuilt PROVE TableIsTrue
    BY DEF TableIsTrue
  <1> DEFINE held == Baseline(ChosenLine)
             plans == Ranked(held, Catalogue)
  <1>1. PICK verified \in BOOLEAN : shown = Pushed(verified)
    BY DEF TableFits
  <1> DEFINE columns == TableColumns(held, plans, verified)
             front == IF verified /\ Holds(held) THEN <<held.states>> ELSE <<>>
             back == [i \in 1 .. Len(plans) |-> market[plans[i]]]
  <1>2. /\ shown.columns = columns /\ shown.hidden = (Holds(held) /\ ~verified)
        /\ shown.best = [k \in Kinds |-> BestCell(columns, k)]
    BY <1>1 DEF Pushed
  <1>3. TableTypes /\ Measure(held) /\ table.plans = plans
    BY MeasureIs DEF TableFits, BuiltTable
  <1> HIDE DEF held
  <1>4. plans \in Seq(Plans)
    BY <1>3, CatalogueIs, RankedIs
  <1>5. columns = front \o back
    BY DEF TableColumns
  <1> HIDE DEF plans, columns
  <1>6. back \in Seq(Stating) /\ Len(back) = Len(plans)
    <2>1. \A i \in 1 .. Len(plans) : market[plans[i]] \in Stating
      BY <1>3, <1>4 DEF TableTypes
    <2>2. Len(plans) \in Nat
      BY <1>4
    <2> QED BY <2>1, <2>2
  <1>7. front \in Seq(Stating)
    BY <1>3 DEF Measure
  <1>8. ~verified => front = <<>> /\ Len(front) = 0
    OBVIOUS
  <1> HIDE DEF front, back
  <1>9. columns \in Seq(Stating) /\ Len(columns) = Len(front) + Len(back)
    BY <1>5, <1>6, <1>7, ConcatProperties
  <1>10. DOMAIN columns = 1 .. Len(columns)
    BY <1>9
  <1>11. shown.hidden => Len(columns) = Len(plans)
    <2>1. Len(plans) \in Nat
      BY <1>4
    <2>2. shown.hidden => ~verified
      BY <1>2, Zenon
    <2>3. ~verified => Len(columns) = Len(plans)
      BY <1>6, <1>8, <1>9, <2>1
    <2> QED BY <2>2, <2>3, Zenon
  <1>12. \A k \in Kinds : shown.best[k] = BestCell(columns, k)
    BY <1>2
  <1>13. ASSUME NEW k \in Kinds
         PROVE  LET stated == {i \in DOMAIN columns : columns[i][k] # NotStated}
                    best == shown.best[k]
                IN  IF stated = {} THEN best = 0
                    ELSE /\ best \in stated
                         /\ \A i \in stated : IF k \in LowerIsBetter THEN columns[best][k] <= columns[i][k]
                                                                     ELSE columns[best][k] >= columns[i][k]
    BY <1>9, <1>10, <1>12, BestCellIs
  <1> QED BY <1>2, <1>3, <1>11, <1>13, Zenon DEF TableIsTrue

\* Spec => []TableIsFair: for any market, policy and attributes, the comparison is
\* measured against the policy on its own line, the order of the catalogue moves no
\* plan, none scores below one it is at least as good as in everything, a loss that
\* counts is named with the gain (ComparisonService.build, _relative_scores and
\* _reason), and the cell marked on the customer's table is the best of its row
\* (to_push_payload).
THEOREM TableIsAlwaysFair == Spec => []TableIsFair
  <1>1. [Next]_vars => [TableStep]_tableVars
    BY DEF Next, vars, tableVars
  <1>2. TableFits => TableIsFair
    BY FitRankingIsFair, FitTableIsTrue DEF TableIsFair
  <1> QED BY <1>1, <1>2, TableFitsInit, TableFitsStep, PTL DEF Spec
=============================================================================
