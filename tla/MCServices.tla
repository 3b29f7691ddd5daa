----------------------------- MODULE MCServices -----------------------------
(***************************************************************************)
(* The components besides runs and membership, checked in one run.  They   *)
(* share no state, so a behaviour is one of them at work: `focus`.         *)
(***************************************************************************)
EXTENDS ProjectTree, ProjectSettings, Accounts, RunPreparation, Feeds, DevServer, RunBox,
        LoginSession

VARIABLE focus

servicesVars ==
  <<focus, treeVars, settingsVars, accountVars, preparationVars, feedVars, devVars, boxVars,
    loginVars>>

(* A small project: two directories and a file in each.                    *)
FileA == <<"a", "x">>
FileB == <<"b", "x">>
MCPathOrder == <<FileA, FileB>>
MCLocations == {<<"a">>, FileB}
MCMoves     == {<< <<"a">>, <<"b">> >>, << <<"b">>, <<"a">> >>}
MCUploads   == {<<[path |-> FileA, content |-> "c2"], [path |-> FileB, content |-> "c2"]>>}
MCFirstTree == (FileA :> "c1") @@ (FileB :> None)

(* Components out of focus have one initial state.                         *)
ServicesInit ==
  /\ focus \in {"tree", "settings", "accounts", "preparation", "feeds", "dev", "box", "login"}
  /\ TreeInit /\ SettingsInit /\ AccountsInit /\ PreparationInit /\ FeedsInit /\ DevInit
  /\ BoxInit /\ LoginInit
  /\ focus # "tree" => versions # <<>>
  /\ focus # "settings" => project.name = (CHOOSE n \in Names : TRUE) /\ ~forked
  /\ focus # "preparation" => setup.plan = (CHOOSE p \in Plans : TRUE)
  /\ focus # "feeds" => clock = 0

TreeWorks ==
  /\ focus = "tree" /\ TreeNext
  /\ UNCHANGED <<focus, settingsVars, accountVars, preparationVars, feedVars, devVars, boxVars, loginVars>>
SettingsWork ==
  /\ focus = "settings" /\ SettingsNext
  /\ UNCHANGED <<focus, treeVars, accountVars, preparationVars, feedVars, devVars, boxVars, loginVars>>
AccountsWork ==
  /\ focus = "accounts" /\ AccountsNext
  /\ UNCHANGED <<focus, treeVars, settingsVars, preparationVars, feedVars, devVars, boxVars, loginVars>>
PreparationWorks ==
  /\ focus = "preparation" /\ PreparationNext
  /\ UNCHANGED <<focus, treeVars, settingsVars, accountVars, feedVars, devVars, boxVars, loginVars>>
FeedsWork ==
  /\ focus = "feeds" /\ FeedsNext
  /\ UNCHANGED <<focus, treeVars, settingsVars, accountVars, preparationVars, devVars, boxVars, loginVars>>
DevWorks ==
  /\ focus = "dev" /\ DevNext
  /\ UNCHANGED <<focus, treeVars, settingsVars, accountVars, preparationVars, feedVars, boxVars, loginVars>>
BoxWorks ==
  /\ focus = "box" /\ BoxNext
  /\ UNCHANGED <<focus, treeVars, settingsVars, accountVars, preparationVars, feedVars, devVars, loginVars>>
LoginWorks ==
  /\ focus = "login" /\ LoginNext
  /\ UNCHANGED <<focus, treeVars, settingsVars, accountVars, preparationVars, feedVars, devVars, boxVars>>

ServicesNext ==
  \/ TreeWorks \/ SettingsWork \/ AccountsWork \/ PreparationWorks
  \/ FeedsWork \/ DevWorks \/ BoxWorks \/ LoginWorks

ServicesSpec ==
  /\ ServicesInit /\ [][ServicesNext]_servicesVars
  /\ TreeFairness /\ DevFairness /\ BoxFairness

(* Every component's variables keep their types.                           *)
ServicesTypeOK ==
  /\ TreeTypeOK /\ SettingsTypeOK /\ AccountsTypeOK /\ PreparationTypeOK
  /\ FeedsTypeOK /\ DevTypeOK /\ BoxTypeOK /\ LoginTypeOK

=============================================================================
