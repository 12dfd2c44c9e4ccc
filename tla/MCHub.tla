------------------------------- MODULE MCHub -------------------------------
(***************************************************************************)
(* What answers people: of the Governance Hub the bundle lifecycle of its  *)
(* control plane, its logins, its wizard and its signal review; the        *)
(* sessions of the Knowledge copilot, and the Knowledge Reader's admission *)
(* of requests.  They share no state, so each behaviour runs one of Parts  *)
(* while the others stay as they start.                                    *)
(* Two bundles are made of one input; two configurations share a platform, *)
(* the second is invalid; the last signal may be republished with other    *)
(* contents.                                                               *)
(***************************************************************************)
EXTENDS HubService, HubWizard, HubLogin, SignalRegistry, AskPalo, ReaderAdmission, TLC

CONSTANT Parts

ASSUME PartsAssumption ==
  Parts \subseteq {"service", "wizard", "login", "signals", "copilot", "reader"}

VARIABLE part

MCScopeOf == [p \in Person |->
  {"read", "review"} \cup IF p = "ada" THEN {"operate", "publish", "audit"} ELSE {}]
MCDigestOf == [b \in Bundle |-> CHOOSE d \in Digest : TRUE]
MCProfileOf == [i \in Input |-> IF i = "b1" THEN "b" ELSE "a"]
MCVersionOf == [s \in Signal |-> IF s = Max(Signal) THEN {1, 2} ELSE {1}]

\* Two principals of one client, one of another: the limit per client and the
\* global one differ in whom they refuse, and the rate limiter has room for two.
MCClientOf == [p \in {"p1", "p2", "p3"} |-> IF p = "p3" THEN "c2" ELSE "c1"]

MCLogins == <<"ada", "bob">>
CopilotSymmetry == Permutations(CopilotPage) \cup Permutations(CopilotCall)

WizardIdle == WizardInit /\ wzInput = CHOOSE i \in ValidInput : TRUE
SignalIdle ==
  /\ feed = [s \in Signal |-> 0]
  /\ SignalInit

Init ==
  /\ part \in Parts
  /\ HubInit
  /\ IF part = "wizard" THEN WizardInit ELSE WizardIdle
  /\ LoginInit
  /\ IF part = "signals" THEN SignalInit ELSE SignalIdle
  /\ CopilotInit /\ ReaderInit

Next ==
  /\ UNCHANGED part
  /\ \/ part = "service" /\ HubNext /\ UNCHANGED <<wzVars, hlVars, swVars, cpVars, rdVars>>
     \/ part = "wizard" /\ WizardNext /\ UNCHANGED <<hubVars, hlVars, swVars, cpVars, rdVars>>
     \/ part = "login" /\ LoginNext /\ UNCHANGED <<hubVars, wzVars, swVars, cpVars, rdVars>>
     \/ part = "signals" /\ SignalNext /\ UNCHANGED <<hubVars, wzVars, hlVars, cpVars, rdVars>>
     \/ part = "copilot" /\ CopilotNext /\ UNCHANGED <<hubVars, wzVars, hlVars, swVars, rdVars>>
     \/ part = "reader" /\ ReaderNext /\ UNCHANGED <<hubVars, wzVars, hlVars, swVars, cpVars>>

Spec == Init /\ [][Next]_<<part, hubVars, wzVars, hlVars, swVars, cpVars, rdVars>>

\* The parts a behaviour does not run stay as they start.
HubTypesOK ==
  CASE part = "service" -> HubTypeOK
    [] part = "wizard" -> WizardTypeOK
    [] part = "login" -> LoginTypeOK
    [] part = "signals" -> SignalTypeOK
    [] part = "copilot" -> CopilotTypeOK
    [] part = "reader" -> ReaderTypeOK
=============================================================================
