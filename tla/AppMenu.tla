------------------------------ MODULE AppMenu -------------------------------
(***************************************************************************)
(* What the app asks before a customer calls (api/routers/mobile.py): the  *)
(* line, the reason, and the contact they tap.                             *)
(*                                                                         *)
(* The questions are the spoken menu's, read from the same menus.yaml, but *)
(* not the same list: an option may be kept to customers who hold a plan   *)
(* on the line, or to those who do not.  The loader's validation and the   *)
(* page filter the options apart from each other.                          *)
(***************************************************************************)
EXTENDS Naturals, FiniteSets

CONSTANTS
    MenuLines,   \* lines the first menu lists
    OtherLines,  \* lines customers hold plans on and no menu is for
    General,     \* "something else": the line, and the name of its menu
    MaxOptions   \* bound: options of a reason menu

ASSUME AppMenuAssumption ==
    General \notin MenuLines \cup OtherLines /\ MaxOptions \in Nat \ {0}

VARIABLES
    menus,  \* menus.yaml: the rows of the first menu, and the reason menus
    app     \* the screen

contactVars == <<menus, app>>

Context == {"plan", "general"}

NoReason == "none"

Intent == {"listed", "catch_all"}

Home == [screen |-> "home"]

\* An option as the file has it: `contexts` may be missing, or any list.
Option == [intent : Intent \cup {NoReason}, given : {<<>>} \cup {<<s>> : s \in SUBSET Context}]

\* A row of the first menu names its line or not, and leads on or not.
RowOf == [names : BOOLEAN, leads : BOOLEAN]

-----------------------------------------------------------------------------
(* Loading.                                                                *)

Contexts(o) == IF o.given = <<>> THEN Context ELSE o.given[1]

ShownIn(o, context) == context \in Contexts(o)

\* A slip (D122): a way out for some customer is a way out.
MenuIsValidAnywhere(menu) ==
    /\ \A o \in menu : Contexts(o) # {}
    /\ \E o \in menu : o.intent = "catch_all"

\* A menu of reasons has a way out for whoever sees it.
MenuIsValid(menu) ==
    /\ \A o \in menu : Contexts(o) # {}
    /\ \A c \in Context : \E o \in menu : ShownIn(o, c) /\ o.intent = "catch_all"

ReasonMenus == {m \in SUBSET Option : Cardinality(m) <= MaxOptions /\ MenuIsValid(m)}

AppInit ==
    /\ menus \in [root : [MenuLines \cup {General} -> RowOf],
                  reasons : [MenuLines \cup {General} -> ReasonMenus]]
    /\ app = Home

\* Where the app is not the subject.
NoApp ==
    /\ menus = [root |-> [l \in MenuLines \cup {General} |-> [names |-> TRUE, leads |-> TRUE]],
                reasons |-> [l \in MenuLines \cup {General} |-> {}]]
    /\ app = Home

-----------------------------------------------------------------------------
(* The questions.                                                          *)

\* The rows of contact_lines, by the line each one says.
LinesOffered ==
    {IF menus.root[l].names THEN l ELSE General : l \in {k \in DOMAIN menus.root : menus.root[k].leads}}

\* reason_menu_for, and the general menu for whoever has none.
MenuFor(line) ==
    IF line \in DOMAIN menus.root /\ menus.root[line].names /\ menus.root[line].leads
    THEN menus.reasons[line] ELSE menus.reasons[General]

ReasonsOffered(line, context) ==
    {o.intent : o \in {p \in MenuFor(line) : ShownIn(p, context)}} \ {NoReason}

Asks(line, context) ==
    app' = [screen |-> "reasons", line |-> line, context |-> context,
            offered |-> ReasonsOffered(line, context)]

TapPlan(line) == app = Home /\ Asks(line, "plan") /\ UNCHANGED menus

TapSomethingElse ==
    /\ app = Home
    /\ app' = [screen |-> "lines", offered |-> LinesOffered]
    /\ UNCHANGED menus

TapLine(line) == app.screen = "lines" /\ line \in app.offered /\ Asks(line, "general") /\ UNCHANGED menus

\* The intent of the call is made with the reason.
TapReason(reason) ==
    /\ app.screen = "reasons" /\ reason \in app.offered
    /\ app' = [screen |-> "dial", reason |-> reason]
    /\ UNCHANGED menus

AppStep ==
    \/ TapSomethingElse
    \/ \E l \in MenuLines \cup OtherLines : TapPlan(l)
    \/ \E l \in MenuLines \cup {General} : TapLine(l)
    \/ \E r \in Intent : TapReason(r)

-----------------------------------------------------------------------------

\* Whoever is asked for their reason is shown one they can tap when theirs is
\* not on the list (D122, D123): on a plan or not, on a line with a menu or
\* without, whatever the file hides from the one or the other.
NobodyIsStuck == app.screen = "reasons" => "catch_all" \in app.offered
=============================================================================
