------------------------------- MODULE Handshakes -------------------------------
(***************************************************************************)
(* What each statement of the store writes into the row of a connection    *)
(* while it is set up.  A setup gives the customer a one-time capability   *)
(* (a completion token, a consent, install or OAuth state) of which the    *)
(* row keeps the hash; capabilities are numbered as they are issued and 0  *)
(* is none.  A condition that is not met leaves the row alone, and the     *)
(* statement returns no row.                                               *)
(***************************************************************************)
EXTENDS Validators, Naturals

CONSTANTS MaxStates,   \* how many capabilities the model issues
          Accounts,    \* provider accounts with an installation of the GitHub App
          NoAccount

ASSUME StatesAssumption == MaxStates \in Nat \ {0} /\ NoAccount \notin Accounts

States == 1..MaxStates

\* `launch' and `oauth' are the hashes in credential_reference, `window' the states of
\* which configuration.onboarding records an expiry that lies ahead, `picking' the
\* pending Azure Repos selection, `done' whether onboarding.completed_at is set; `inst' is
\* the installation the row names and `account' the one whose repositories it is bound to.
Rows == [life : {"active", "disabled"}, health : Health, launch : 0..MaxStates,
         oauth : 0..MaxStates, window : SUBSET States, picking : 0..MaxStates,
         candidates : SUBSET Places, done : BOOLEAN, places : SUBSET Places,
         inst : Accounts \cup {NoAccount}, account : Accounts \cup {NoAccount}]

NewRow(places, done) ==
    [life |-> "active", health |-> "unknown", launch |-> 0, oauth |-> 0, window |-> {},
     picking |-> 0, candidates |-> {}, done |-> done, places |-> places,
     inst |-> NoAccount, account |-> NoAccount]

\* The part of the row that a validation goes by.
TargetOf(row) == [places |-> row.places, done |-> row.done, same |-> row.inst = row.account]

Active(row) == row.life = "active"

\* The launch replaces configuration.onboarding, whatever stage the setup had reached.
Relaunched(row, n) == [row EXCEPT !.window = {n}, !.done = FALSE, !.picking = 0]

\* Mutant of Bound: the health of the boundary before stays.
BoundKeepsHealth(row, places) == [row EXCEPT !.places = places, !.done = TRUE]

\* A completed setup has no health until a validation gives it one.
Bound(row, places) == [row EXCEPT !.places = places, !.done = TRUE, !.health = "unknown"]

-----------------------------------------------------------------------------
\* AWS: the only launch without a condition on the lifecycle, and without a capability.
RecordConnectionLaunch(row) == [row EXCEPT !.window = {}, !.done = FALSE]

RecordConnectionSetupLaunch(row, n) ==
    IF Active(row) THEN [Relaunched(row, n) EXCEPT !.launch = n] ELSE row

\* Mutant of CompleteAzureConnectionSetup: no condition on the hash that was read.
CompleteAzureAnyLaunch(row, n, places) ==
    IF Active(row) THEN [Bound(row, places) EXCEPT !.launch = 0] ELSE row

CompleteAzureConnectionSetup(row, n, places) ==
    IF Active(row) /\ row.launch = n THEN [Bound(row, places) EXCEPT !.launch = 0] ELSE row

RecordEntraConsentLaunch(row, n) ==
    IF Active(row) THEN [Relaunched(row, n) EXCEPT !.launch = n] ELSE row

FailEntraConnectionSetup(row, n) ==
    IF Active(row) /\ row.launch = n THEN [row EXCEPT !.launch = 0] ELSE row

CompleteEntraConnectionSetup(row, n) ==
    IF Active(row) /\ row.launch = n THEN [Bound(row, Places) EXCEPT !.launch = 0] ELSE row

CompleteGoogleWorkspaceConnectionSetup(row) ==
    IF Active(row) THEN Bound(row, row.places) ELSE row

RecordGcpConnectionSetupLaunch(row, n) ==
    IF Active(row) THEN [Relaunched(row, n) EXCEPT !.launch = n] ELSE row

CompleteGcpConnectionSetup(row, n, places) ==
    IF Active(row) /\ row.launch = n THEN [Bound(row, places) EXCEPT !.launch = 0] ELSE row

\* The OAuth state of an earlier launch stays.
RecordGithubInstallLaunch(row, n) ==
    IF Active(row) THEN [Relaunched(row, n) EXCEPT !.launch = n] ELSE row

\* Mutant of RecordGithubInstallReturn: a verification under way goes on.
RecordGithubReturnKeepsOauth(row, n, account, oauth) ==
    IF Active(row) /\ row.launch = n
    THEN [row EXCEPT !.launch = 0, !.inst = account, !.oauth = IF @ = 0 THEN oauth ELSE @,
                     !.window = @ \cup {oauth}]
    ELSE row

\* The installation a browser named is written down before anybody verified it.
RecordGithubInstallReturn(row, n, account, oauth) ==
    IF Active(row) /\ row.launch = n
    THEN [row EXCEPT !.launch = 0, !.inst = account, !.oauth = oauth,
                     !.window = @ \cup {oauth}]
    ELSE row

CompleteGithubConnectionSetup(row, oauth, account, places) ==
    IF Active(row) /\ row.oauth = oauth
    THEN [Bound(row, places) EXCEPT !.oauth = 0, !.account = account]
    ELSE row

RecordAzureReposOauthLaunch(row, n) ==
    IF Active(row) THEN [Relaunched(row, n) EXCEPT !.oauth = n, !.candidates = {}] ELSE row

StageAzureReposRepositorySelection(row, oauth, candidates, n) ==
    IF Active(row) /\ row.oauth = oauth
    THEN [Relaunched(row, n) EXCEPT !.oauth = 0, !.candidates = candidates, !.picking = n]
    ELSE row

\* The condition is that a selection is pending, whichever.
CompleteAzureReposConnectionSetup(row, places) ==
    IF Active(row) /\ row.picking # 0
    THEN [Bound(row, places) EXCEPT !.window = {}, !.picking = 0, !.candidates = {}]
    ELSE row

\* Mutant of RecordConnectionValidation: the credential state in the place of the health.
RecordCredentialAsHealth(row, health) ==
    [row EXCEPT !.health = IF health = "unhealthy" THEN "failed" ELSE "passed"]

\* Whatever binding the row has by now.
RecordConnectionValidation(row, health) == [row EXCEPT !.health = health]

DisableConnection(row) == [row EXCEPT !.life = "disabled", !.health = "disabled"]

=============================================================================
