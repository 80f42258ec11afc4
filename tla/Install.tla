-------------------------------- MODULE Install --------------------------------
(***************************************************************************)
(* Installation and start (service/install.go, runtime/runtime.go,         *)
(* config/config.go, main.go).                                             *)
(*                                                                         *)
(* A process with no config.json serves only the installation.  A request  *)
(* looks whether the program is installed, counts the users of the         *)
(* database it names, makes the administrator in a transaction, renames    *)
(* the new config.json into place and activates the runtime: a step each.  *)
(* The process may die and start again between any two.                    *)
(***************************************************************************)
EXTENDS Integers

CONSTANTS
    Installs,       \* installation requests
    Databases,      \* databases a request may name
    MaxDeaths       \* bound on deaths of the process

Nowhere == "none"

ASSUME InstallAssumption == Nowhere \notin Databases /\ MaxDeaths \in Nat

VARIABLES
    populated,      \* databases that hold users and settings
    configFile,     \* the database config.json names
    running,        \* the process is up
    activated,      \* Runtime.db
    installing,     \* each request and the database it names
    deaths,         \* deaths of the process
    crossed         \* history: a request began its check while another was under way

installVars == <<populated, configFile, running, activated, installing, deaths, crossed>>

NoInstall == [at |-> "idle", into |-> Nowhere]

InstallTypeOK ==
    /\ populated \subseteq Databases /\ configFile \in Databases \cup {Nowhere}
    /\ activated \in Databases \cup {Nowhere} /\ running \in BOOLEAN /\ crossed \in BOOLEAN
    /\ installing \in [Installs -> [at : {"idle", "count", "populate", "save", "activate"},
                                    into : Databases \cup {Nowhere}]]
    /\ deaths \in 0..MaxDeaths

\* Some database may be left from an earlier installation.
InstallInit ==
    /\ populated \in SUBSET Databases /\ configFile = Nowhere
    /\ running = TRUE /\ activated = Nowhere /\ deaths = 0 /\ crossed = FALSE
    /\ installing = [r \in Installs |-> NoInstall]

Installed == activated # Nowhere

\* Install's statements in their order.
\* Mutant: config.json is written before the administrator is made.
ConfigFirst == [count |-> "save", save |-> "populate", populate |-> "activate"]
FollowedBy == [count |-> "populate", populate |-> "save", save |-> "activate"]

Proceeds(r) == installing' = [installing EXCEPT ![r].at = FollowedBy[@]]
Leaves(r) == installing' = [installing EXCEPT ![r] = NoInstall]

-----------------------------------------------------------------------------
BeginInstall(r, d) ==
    /\ running /\ ~Installed /\ installing[r].at = "idle"
    /\ installing' = [installing EXCEPT ![r] = [at |-> "count", into |-> d]]
    /\ crossed' = (crossed \/ \E q \in Installs : installing[q].at # "idle")
    /\ UNCHANGED <<populated, configFile, running, activated, deaths>>

\* A database with users is not taken over.
CountUsers(r) ==
    /\ installing[r].at = "count"
    /\ IF installing[r].into \in populated THEN Leaves(r) ELSE Proceeds(r)
    /\ UNCHANGED <<populated, configFile, running, activated, deaths, crossed>>

\* The administrator and the settings; the keys of the settings are unique.
Populate(r) ==
    /\ installing[r].at = "populate" /\ installing[r].into \notin populated
    /\ populated' = populated \cup {installing[r].into}
    /\ Proceeds(r)
    /\ UNCHANGED <<configFile, running, activated, deaths, crossed>>

\* A file renamed into place; what was there is replaced.
SaveConfig(r) ==
    /\ installing[r].at = "save"
    /\ configFile' = installing[r].into
    /\ Proceeds(r)
    /\ UNCHANGED <<populated, running, activated, deaths, crossed>>

Activate(r) ==
    /\ installing[r].at = "activate"
    /\ activated' = installing[r].into
    /\ Leaves(r)
    /\ UNCHANGED <<populated, configFile, running, deaths, crossed>>

\* A duplicate key, or any error of the database or the disk.
InstallFails(r) ==
    /\ installing[r].at \in {"count", "populate", "save"}
    /\ Leaves(r)
    /\ UNCHANGED <<populated, configFile, running, activated, deaths, crossed>>

InstallerDies ==
    /\ running /\ deaths < MaxDeaths
    /\ running' = FALSE /\ activated' = Nowhere /\ deaths' = deaths + 1
    /\ installing' = [r \in Installs |-> NoInstall]
    /\ UNCHANGED <<populated, configFile, crossed>>

\* run: an existing config.json is an installed program.
ProcessStarts ==
    /\ ~running
    /\ running' = TRUE /\ activated' = configFile
    /\ UNCHANGED <<populated, configFile, installing, deaths, crossed>>

InstallNext ==
    \/ \E r \in Installs, d \in Databases : BeginInstall(r, d)
    \/ \E r \in Installs : CountUsers(r)
    \/ \E r \in Installs : Populate(r)
    \/ \E r \in Installs : SaveConfig(r)
    \/ \E r \in Installs : Activate(r)
    \/ \E r \in Installs : InstallFails(r)
    \/ InstallerDies
    \/ ProcessStarts

InstallSpec == InstallInit /\ [][InstallNext]_installVars

-----------------------------------------------------------------------------
(***************************************************************************)
(* The database that config.json names, or that the process serves, has    *)
(* its administrator, through failures, deaths and requests that overtake  *)
(* one another: "任一步失败都不会写下配置文件" (install.go:48).  Where no     *)
(* two requests were under way at once, the process serves the database of *)
(* its config.json.                                                        *)
(***************************************************************************)
ConfiguredIsPopulated ==
    /\ {configFile, activated} \ {Nowhere} \subseteq populated
    /\ ~crossed /\ activated # Nowhere => activated = configFile
=============================================================================
