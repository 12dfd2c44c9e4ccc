------------------------------ MODULE HubWizard ------------------------------
(***************************************************************************)
(* The guided builder of the Governance Hub (governance-hub/src: App.jsx,  *)
(* wizardProgression.js, controlPlaneClient.js) for an authenticated user: *)
(* what the browser keeps of the evidence for a configuration while its    *)
(* requests are in flight and the user goes on editing, and what the       *)
(* control plane makes of the requests (service.js).  Steps 1 to 5 of the  *)
(* wizard only edit the input and are one step here; a bundle is named by  *)
(* its input.  The suite passes for every valid input and the control      *)
(* plane refuses any other; who may take which step is in HubService.      *)
(***************************************************************************)
EXTENDS Integers, FiniteSets

CONSTANTS
  Input,               \* configurations the user may enter
  Profile, ProfileOf,  \* platform and environment of a configuration
  ValidInput,          \* those validateAuthorityConfiguration finds valid
  MaxAsked,            \* bound on the requests in flight
  MaxStored            \* and on the inputs with a bundle

ASSUME WizardAssumption == /\ ProfileOf \in [Input -> Profile]
                            /\ ValidInput \subseteq Input
                            /\ MaxAsked \in Nat /\ MaxStored \in Nat

VARIABLES
  wzInput,      \* connection, authority, oversight, purpose and effect
  wzStep, wzConfirmed,
  wzChecked,    \* the profile of connectionReceipt
  wzReceipt,    \* the input of simulationReceipt
  wzLocal,      \* the input of localBundleReceipt
  wzBundle,     \* bundleRecord
  wzAsked,      \* requests in flight, each with the values of its closure
  wzSimulated,  \* inputs the control plane has run the suite for
  wzStored      \* status of the bundles of the control plane

wzProgress == <<wzStep, wzConfirmed>>
wzServer == <<wzSimulated, wzStored>>
wzVars == <<wzInput, wzProgress, wzChecked, wzReceipt, wzLocal, wzBundle, wzAsked, wzServer>>

Nothing == "nothing"
Connect == 0
Configure == 1
Test == 2
Publishing == 3
WizardStep == Connect..Publishing

\* The transitions of a stored bundle, by the button that asks for them.
Before == [submit |-> "draft", approve |-> "in-review", reject |-> "in-review",
         publish |-> "approved"]
After == [submit |-> "in-review", approve |-> "approved", reject |-> "rejected",
       publish |-> "published"]
BundleStatus == {"draft", "in-review", "approved", "rejected", "published"}
NoRecord == [input |-> Nothing, status |-> Nothing]
BundleRecord == [input : Input, status : BundleStatus] \cup {NoRecord}

Lifecycle == {"draft", "load"} \cup DOMAIN Before
Asked == [do : {"check", "simulate", "local"} \cup Lifecycle, input : Input,
          receipt : Input \cup {Nothing}]

WizardTypeOK ==
  /\ wzInput \in Input
  /\ wzStep \in WizardStep /\ wzConfirmed \in -1..Test
  /\ wzChecked \in Profile \cup {Nothing}
  /\ {wzReceipt, wzLocal} \subseteq Input \cup {Nothing}
  /\ wzBundle \in BundleRecord
  /\ wzAsked \subseteq Asked
  /\ wzSimulated \subseteq Input
  /\ wzStored \in [Input -> BundleStatus \cup {Nothing}]

WizardInit ==
  /\ wzInput \in ValidInput
  /\ wzStep = Connect /\ wzConfirmed = -1
  /\ wzChecked = Nothing /\ wzReceipt = Nothing /\ wzLocal = Nothing
  /\ wzBundle = NoRecord
  /\ wzAsked = {}
  /\ wzSimulated = {}
  /\ wzStored = [i \in Input |-> Nothing]
-----------------------------------------------------------------------------
(* The user edits and moves between the steps *)

\* invalidateProgressAfter and invalidateAssurance: nothing is said to the
\* requests in flight.
Invalidated(i, confirmed) ==
  /\ wzInput' = i
  /\ wzConfirmed' = IF wzConfirmed < confirmed THEN wzConfirmed ELSE confirmed
  /\ wzReceipt' = Nothing /\ wzLocal' = Nothing /\ wzBundle' = NoRecord
  /\ UNCHANGED <<wzStep, wzAsked, wzServer>>

UpdateConnection(i) ==
  /\ wzStep = Connect /\ ProfileOf[i] # ProfileOf[wzInput]
  /\ wzChecked' = Nothing
  /\ Invalidated(i, Connect - 1)

UpdateAuthority(i) ==
  /\ wzStep = Configure /\ i # wzInput /\ ProfileOf[i] = ProfileOf[wzInput]
  /\ UNCHANGED wzChecked
  /\ Invalidated(i, Configure - 1)

Validity(step) ==
  CASE step = Connect -> wzChecked # Nothing
    [] step = Configure -> wzInput \in ValidInput
    [] step = Test -> wzReceipt # Nothing
    [] OTHER -> FALSE

MoveTo(step, confirmed) ==
  /\ wzStep' = step /\ wzConfirmed' = confirmed
  /\ UNCHANGED <<wzInput, wzChecked, wzReceipt, wzLocal, wzBundle, wzAsked, wzServer>>

ContinueToNext ==
  /\ Validity(wzStep)
  /\ MoveTo(wzStep + 1, IF wzConfirmed < wzStep THEN wzStep ELSE wzConfirmed)

NavigateToStep(step) ==
  /\ step # wzStep /\ step <= wzConfirmed + 1
  /\ MoveTo(step, wzConfirmed)
-----------------------------------------------------------------------------
(* The user asks; a button is disabled while its request is running *)

Running(buttons) == \E q \in wzAsked : q.do \in buttons

AskFor(do, i) ==
  /\ Cardinality(wzAsked) < MaxAsked
  /\ wzAsked' = wzAsked \cup {[do |-> do, input |-> i, receipt |->
                                 IF do \in {"local", "draft"} THEN wzReceipt ELSE Nothing]}
  /\ UNCHANGED <<wzInput, wzProgress, wzChecked, wzReceipt, wzLocal, wzBundle, wzServer>>

CanGenerate == wzStep = Publishing /\ wzInput \in ValidInput /\ wzReceipt # Nothing

CheckConnection ==
  wzStep = Connect /\ ~Running({"check"}) /\ AskFor("check", wzInput)

RunBoundaryTest ==
  /\ wzStep \in {Configure, Test} /\ wzInput \in ValidInput
  /\ ~Running({"simulate"})
  /\ AskFor("simulate", wzInput)

GenerateLocalBundle == CanGenerate /\ AskFor("local", wzInput)

LifecycleAction(do) ==
  /\ wzStep = Publishing /\ ~Running(Lifecycle)
  /\ \/ do = "draft" /\ wzBundle = NoRecord /\ CanGenerate /\ AskFor(do, wzInput)
     \/ do \in DOMAIN Before /\ wzBundle.status = Before[do]
                           /\ AskFor(do, wzBundle.input)

LoadBundle(i) ==
  /\ wzStep = Publishing /\ wzStored[i] # Nothing /\ ~Running(Lifecycle)
  /\ AskFor("load", i)
-----------------------------------------------------------------------------
(* The control plane serves a request, and the browser applies the answer *)

\* A mutation: the digest of the receipt is not compared.
AnyReceipt(q) == q.receipt # Nothing

OwnReceipt(q) == q.receipt = q.input

\* createDraft and transitionBundleWithAudit, or the refusal of either.
Served(q) ==
  \/ /\ q.do = "draft"
     /\ OwnReceipt(q) /\ q.input \in ValidInput \cap wzSimulated
     /\ wzStored[q.input] \in {Nothing, "rejected"}
     /\ Cardinality({i \in Input : wzStored[i] # Nothing} \cup {q.input}) <= MaxStored
     /\ wzStored' = [wzStored EXCEPT ![q.input] = "draft"]
  \/ /\ q.do \in DOMAIN Before
     /\ wzStored[q.input] = Before[q.do]
     /\ wzStored' = [wzStored EXCEPT ![q.input] = After[q.do]]
  \/ /\ q.do = "load" /\ UNCHANGED wzStored

Closed(q) == wzAsked' = wzAsked \ {q}

Checked(q) ==
  /\ q.do = "check" /\ Closed(q)
  /\ wzChecked' = ProfileOf[q.input]
  /\ UNCHANGED <<wzInput, wzProgress, wzReceipt, wzLocal, wzBundle, wzServer>>

Simulated(q) ==
  /\ q.do = "simulate" /\ Closed(q)
  /\ wzSimulated' = wzSimulated \cup {q.input}
  /\ wzReceipt' = q.input /\ wzLocal' = Nothing /\ wzBundle' = NoRecord
  /\ UNCHANGED <<wzInput, wzProgress, wzChecked, wzStored>>

\* generateSandboxBundle refuses the receipt of another input.
GeneratedLocally(q) ==
  /\ q.do = "local" /\ OwnReceipt(q) /\ Closed(q)
  /\ wzLocal' = q.input
  /\ UNCHANGED <<wzInput, wzProgress, wzChecked, wzReceipt, wzBundle, wzServer>>

LifecycleAnswered(q) ==
  /\ q.do \in Lifecycle /\ Served(q) /\ Closed(q)
  /\ wzBundle' = [input |-> q.input, status |-> wzStored'[q.input]]
  /\ wzStep' = IF q.do = "load" THEN Publishing ELSE wzStep
  /\ UNCHANGED <<wzInput, wzConfirmed, wzChecked, wzReceipt, wzLocal, wzSimulated>>

\* The request fails or is refused.
Failed(q) ==
  /\ Closed(q)
  /\ UNCHANGED <<wzInput, wzProgress, wzChecked, wzReceipt, wzLocal, wzBundle, wzServer>>

\* It was served, and its answer is lost.
AnswerLost(q) ==
  /\ q.do \in Lifecycle \ {"load"} /\ Served(q) /\ Closed(q)
  /\ UNCHANGED <<wzInput, wzProgress, wzChecked, wzReceipt, wzLocal, wzBundle, wzSimulated>>

\* Another user takes a bundle a step on.
Elsewhere(i, do) ==
  /\ wzStored[i] = Before[do]
  /\ wzStored' = [wzStored EXCEPT ![i] = After[do]]
  /\ UNCHANGED <<wzInput, wzProgress, wzChecked, wzReceipt, wzLocal, wzBundle, wzAsked,
                 wzSimulated>>

WizardNext ==
  \/ \E i \in Input : UpdateConnection(i) \/ UpdateAuthority(i) \/ LoadBundle(i)
  \/ ContinueToNext
  \/ \E step \in WizardStep : NavigateToStep(step)
  \/ CheckConnection
  \/ RunBoundaryTest
  \/ GenerateLocalBundle
  \/ \E do \in Lifecycle : LifecycleAction(do)
  \/ \E q \in wzAsked :
       \/ Checked(q)
       \/ Simulated(q)
       \/ GeneratedLocally(q)
       \/ LifecycleAnswered(q)
       \/ Failed(q)
       \/ AnswerLost(q)
  \/ \E i \in Input, do \in DOMAIN Before : Elsewhere(i, do)

WizardSpec == WizardInit /\ [][WizardNext]_wzVars
-----------------------------------------------------------------------------
(* Properties *)

\* Whatever is edited while requests are in flight, no draft is stored and no
\* local bundle made of an input that the suite was not run for, although the
\* wizard may hold the receipt of another input when it asks (createDraft,
\* service.js:221; generateSandboxBundle, governanceVerification.js:318).
ArtifactTested ==
  /\ wzLocal \in wzSimulated \cup {Nothing}
  /\ \A i \in Input : wzStored[i] # Nothing => i \in wzSimulated

\* The receipt the wizard shows is that of the input it shows ("Change any
\* input and the previous evidence is invalidated", App.jsx:826).
ReceiptOfCurrentInput == wzReceipt \in {Nothing, wzInput}
=============================================================================
