---------------------------- MODULE ModelSwitch -----------------------------
(***************************************************************************)
(* Which language model serves which job, and the switch in the agents'    *)
(* settings panel that changes it while calls go on (api/deps.py,          *)
(* api/routers/agent.py, adapters/llm, services/analysis).                 *)
(*                                                                         *)
(* Four stages hold a client each.  At boot they share one or two clients; *)
(* the switch builds a client of its own for every stage it is asked for.  *)
(* What the panel reports is kept beside the clients, not read from them.  *)
(* The context summary of one call stands for the text they write.  A      *)
(* handler is a step; a model's answer is another.                         *)
(***************************************************************************)
EXTENDS Integers, Sequences, FiniteSets

CONSTANTS
    Hosted,         \* providers reached over the network
    Keyless,        \* those of them that may be configured without a key
    MaxModelPicks   \* bound: uses of the switch and restarts

ASSUME ModelSwitchAssumption ==
    /\ Keyless \subseteq Hosted /\ "rulebased" \notin Hosted /\ MaxModelPicks \in Nat

VARIABLES
    env,        \* the settings: keys, provider, provider of the fast model, demo login
    runs,       \* stage -> the client that does the job
    quick,      \* fast_llm
    choice,     \* llm_stage_choice
    standing,   \* llm_choice
    warm,       \* clients a warm-up has called
    warming,    \* what the warm-up of the boot has left to call
    due,        \* a warm-up is due after a switch
    changes,    \* switches and restarts so far
    known,      \* there are facts on record that this call may show
    digest,     \* the call's context summary
    digesting   \* the requests for it that a model is at

switchVars == <<env, runs, quick, choice, standing, warm, warming, due, changes,
                known, digest, digesting>>

Stage == {"preview", "context", "comparison", "final"}

Provider == Hosted \cup {"rulebased"}

NoClient == [provider |-> "none"]

NoDigest == [by |-> NoClient]

Built(p, n, s) == [provider |-> p, nr |-> n, for |-> s]

Hosts(client) == client.provider \in Hosted

-----------------------------------------------------------------------------
(* Boot.                                                                   *)

\* A client whose provider needs a key and has none cannot be built.
CanBuild(keys, p) == p \in Hosted => p \in keys \cup Keyless

\* Settings a process starts with: whatever they name can be built.
Settings ==
    {e \in [keys : SUBSET Hosted, provider : Provider, fast : Provider \cup {"none"}, demo : BOOLEAN] :
        CanBuild(e.keys, e.provider) /\ CanBuild(e.keys, e.fast)}

Fast(e, n) == IF e.fast = "none" THEN NoClient ELSE Built(e.fast, n, "fast")

Main(e, n) == Built(e.provider, n, "main")

BootClients(e, n) ==
    [s \in Stage |-> IF s = "final" \/ e.fast = "none" THEN Main(e, n) ELSE Fast(e, n)]

\* _warm_llm asks what was built.
BootWarms(e, n) ==
    IF e.provider = "rulebased" /\ e.fast = "none" THEN <<>>
    ELSE <<BootClients(e, n)["preview"], Main(e, n)>>

SwitchInit ==
    /\ env \in Settings
    /\ known \in BOOLEAN
    /\ runs = BootClients(env, 0) /\ quick = Fast(env, 0)
    /\ choice = [s \in Stage |-> runs[s].provider] /\ standing = env.provider
    /\ warm = {} /\ warming = BootWarms(env, 0) /\ due = FALSE /\ changes = 0
    /\ digest = NoDigest /\ digesting = {}

\* Where the models are not the subject.
NoSwitch ==
    /\ env = [keys |-> {}, provider |-> "rulebased", fast |-> "none", demo |-> FALSE]
    /\ known = FALSE
    /\ runs = BootClients(env, 0) /\ quick = NoClient
    /\ choice = [s \in Stage |-> "rulebased"] /\ standing = "rulebased"
    /\ warm = {} /\ warming = <<>> /\ due = FALSE /\ changes = 0
    /\ digest = NoDigest /\ digesting = {}

\* The switch does not outlive the process.
SwitchRestart ==
    /\ changes < MaxModelPicks /\ changes' = changes + 1
    /\ runs' = BootClients(env, changes') /\ quick' = Fast(env, changes')
    /\ choice' = [s \in Stage |-> runs'[s].provider] /\ standing' = env.provider
    /\ warm' = {} /\ warming' = BootWarms(env, changes') /\ due' = FALSE
    /\ digest' = NoDigest /\ digesting' = {}
    /\ UNCHANGED <<env, known>>

BootWarm ==
    /\ warming # <<>>
    /\ warm' = warm \cup {Head(warming)} /\ warming' = Tail(warming)
    /\ UNCHANGED <<env, runs, quick, choice, standing, due, changes, known, digest, digesting>>

-----------------------------------------------------------------------------
(* The switch, and what the panel says.                                    *)

Available(p) == p = "rulebased" \/ p \in env.keys

\* A slip: the preview gets a client of its own and fast_llm stays.
QuickStays(p, targets, clients) == quick

\* fast_llm, which the panel asks for the preview's model, follows the preview.
QuickFollows(p, targets, clients) ==
    IF "preview" \notin targets THEN quick
    ELSE IF p = "rulebased" THEN NoClient ELSE clients["preview"]

\* set_llm: the clients are built before anything they replace goes.
SetLlm(p, targets) ==
    /\ changes < MaxModelPicks /\ changes' = changes + 1
    /\ env.demo /\ Available(p)
    /\ runs' = [s \in Stage |-> IF s \in targets THEN Built(p, changes', s) ELSE runs[s]]
    /\ choice' = [s \in Stage |-> IF s \in targets THEN p ELSE choice[s]]
    /\ quick' = QuickFollows(p, targets, runs')
    /\ standing' = IF targets = Stage THEN p ELSE standing
    /\ digest' = NoDigest
    /\ due' = TRUE
    /\ UNCHANGED <<env, warm, warming, known, digesting>>

\* Of the preview alone, whichever stage was switched.
SwitchWarm ==
    /\ due /\ due' = FALSE
    /\ warm' = IF standing = "rulebased" THEN warm ELSE warm \cup {runs["preview"]}
    /\ UNCHANGED <<env, runs, quick, choice, standing, warming, changes, known, digest, digesting>>

\* llm_state: the answer for all four stages, or "mixed".
Overall == IF \E p \in Provider : \A s \in Stage : choice[s] = p THEN choice["final"] ELSE "mixed"

\* _stage_model: the client whose model the panel names.
Reported(s) == IF s = "preview" /\ quick # NoClient THEN quick
               ELSE IF s = "preview" THEN runs["final"] ELSE runs[s]

-----------------------------------------------------------------------------
(* The context summary.                                                    *)

\* The offer card appears, on the first desk or the next.
AskDigest ==
    /\ digest = NoDigest /\ known
    /\ digesting' = digesting \cup {[by |-> runs["context"], at |-> changes]}
    /\ UNCHANGED <<env, runs, quick, choice, standing, warm, warming, due, changes, known, digest>>

\* A summary that states a figure or recommends is none; one fact is no paragraph.
DigestEnds(ask) ==
    /\ digesting' = digesting \ {ask}
    /\ \/ UNCHANGED digest
       \/ digest' = ask
    /\ UNCHANGED <<env, runs, quick, choice, standing, warm, warming, due, changes, known>>

SwitchStep ==
    \/ SwitchRestart \/ BootWarm \/ SwitchWarm \/ AskDigest
    \/ \E p \in Provider, targets \in {Stage} \cup {{s} : s \in Stage} : SetLlm(p, targets)
    \/ \E ask \in digesting : DigestEnds(ask)

-----------------------------------------------------------------------------

\* The panel does not lie about what a call meets next (B41, D138, D142): each
\* stage is served by the provider it says, with a key; it calls the models off
\* exactly when no request that starts now leaves the house; a model it names is
\* the one behind the stage, wherever the preview has a client; what is on the
\* screen and was asked for since the last change is that model's; and no caller
\* is the first to call a client the process was started with.
PanelIsHonest ==
    /\ \A s \in Stage :
          /\ choice[s] = runs[s].provider
          /\ s # "preview" \/ quick # NoClient => Reported(s) = runs[s]
          /\ Hosts(runs[s]) /\ runs[s].for = s => runs[s].provider \in env.keys
    /\ Overall = "rulebased" <=> \A s \in Stage : ~Hosts(runs[s])
    /\ \A ask \in digesting \cup ({digest} \ {NoDigest}) :
          ask.at = changes => ask.by = runs["context"] /\ ask.by.provider = choice["context"]
    /\ warming = <<>> =>
          \A s \in Stage : runs[s].for \in {"main", "fast"} /\ Hosts(runs[s]) => runs[s] \in warm
=============================================================================
