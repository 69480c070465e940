---------------------------- MODULE AgentInstall ----------------------------
(***************************************************************************)
(* Putting the agent on a PC: the installer's steps                        *)
(* (scripts/install_windows_agent.py), the credential store with its       *)
(* temporary file, ACL and rename (agent/credentials.py), enrollment and   *)
(* migration (agent/enrollment.py, agent/entrypoint.py) and the service    *)
(* under the Windows service manager (agent/windows_service*.py).          *)
(*                                                                         *)
(* One PC and its station.  Credentials are numbered as the controller     *)
(* issues them, 0 is none.  The installer or the whole PC may die at any   *)
(* step, the answer to the enrollment may be lost, DPAPI or the ACL calls  *)
(* may stop working, and Windows may fail to bring the service up, any     *)
(* number of times.  The controller and the operator are external (module  *)
(* StationLifecycle has the controller's side of enrollment); what the     *)
(* operator does is in docs/AGENT_INSTALL.md.                              *)
(***************************************************************************)
EXTENDS Naturals

CONSTANTS
    MaxIssued,  \* bound: credentials the controller issues
    MaxFaults   \* bound: faults

ASSUME InstallAssumption == MaxIssued \in Nat \ {0} /\ MaxFaults \in Nat

VARIABLES
    step,     \* where the installer is
    memory,   \* the credential that its child process holds
    file,     \* AGENT_CREDENTIAL_PATH
    tmp,      \* the temporary file of a save
    sound,    \* DPAPI and ACL calls work
    proved,   \* they worked at some time since the installer was started (history)
    service,  \* the Windows service
    removal,  \* the operator has stopped it to remove the credential file
    outlived, \* it was up when the file was removed, and still is (history)
    bound,    \* controller: the credential the station is bound to
    fresh,    \* controller: an unused enrollment token is at hand
    issued,   \* controller: credentials issued so far
    faults    \* faults so far

controller  == <<bound, fresh, issued>>
windows     == <<service, removal, outlived>>
installVars == <<step, memory, file, tmp, sound, proved, windows, controller, faults>>

-----------------------------------------------------------------------------

\* The steps of install(); write, secure and replace are those of a save.
Steps == {"idle", "prepare", "credential", "migrate", "check", "enroll", "answer",
          "write", "secure", "replace", "register", "start", "wait", "done"}

Credentials == 0..MaxIssued

\* scope: who can decrypt it.  user: the account of the operator.
Blob == [cred : Credentials, scope : {"machine", "user", "stranger"},
         whole : BOOLEAN, secured : BOOLEAN]

NoBlob == [cred |-> 0, scope |-> "machine", whole |-> FALSE, secured |-> FALSE]

Exists(b) == b # NoBlob

\* ProtectedCredentialStore.load by the operator and by LocalSystem.
OperatorLoads(b) == b.whole /\ b.scope \in {"machine", "user"}
ServiceLoads(b)  == b.whole /\ b.scope = "machine"

Service == [registered : BOOLEAN, state : {"stopped", "starting", "running"},
            cred : Credentials]

\* A new PC, or one with a file of the old scheme.
InstallInit ==
    /\ step = "idle" /\ memory = 0 /\ tmp = NoBlob
    /\ sound = TRUE /\ proved = FALSE /\ faults = 0
    /\ service = [registered |-> FALSE, state |-> "stopped", cred |-> 0]
    /\ removal = FALSE /\ outlived = FALSE
    /\ \/ file = NoBlob /\ bound = 0 /\ issued = 0 /\ fresh = TRUE
       \/ /\ file \in [cred : {1}, scope : {"user", "stranger"}, whole : {TRUE}, secured : {FALSE}]
          /\ bound = 1 /\ issued = 1 /\ fresh = FALSE

-----------------------------------------------------------------------------
(* The installer.                                                          *)

\* An InstallerError or a failed child process ends it.
Fail ==
    /\ step' = "idle"
    /\ memory' = 0
    /\ UNCHANGED <<file, tmp, sound, proved, windows, controller, faults>>

Go(from, to) == step = from /\ step' = to

StartInstaller ==
    /\ step \in {"idle", "done"}
    /\ step' = "prepare"
    /\ proved' = sound
    /\ UNCHANGED <<memory, file, tmp, sound, windows, controller, faults>>

\* Copy, uv sync, machine environment.
Prepare ==
    /\ Go("prepare", "credential")
    /\ UNCHANGED <<memory, file, tmp, sound, proved, windows, controller, faults>>

\* Mutant: the store is not tried before the token is used.
Branch_NoCheck ==
    /\ Go("credential", IF Exists(file) THEN "migrate" ELSE "enroll")
    /\ UNCHANGED <<memory, file, tmp, sound, proved, windows, controller, faults>>

\* Does the credential file exist?
Branch ==
    /\ Go("credential", IF Exists(file) THEN "migrate" ELSE "check")
    /\ UNCHANGED <<memory, file, tmp, sound, proved, windows, controller, faults>>

\* Mutant: the old file is cleared before the new one is written.
Migrate_ClearsFirst ==
    /\ step = "migrate"
    /\ \/ /\ OperatorLoads(file) /\ sound
          /\ step' = "write" /\ memory' = file.cred /\ file' = NoBlob
          /\ UNCHANGED <<tmp, sound, proved, windows, controller, faults>>
       \/ /\ ~(OperatorLoads(file) /\ sound)
          /\ Fail

\* Mutant: a file that can be read is left as it is.
Migrate_NotResaved ==
    /\ step = "migrate"
    /\ \/ /\ OperatorLoads(file) /\ sound
          /\ step' = "register"
          /\ UNCHANGED <<memory, file, tmp, sound, proved, windows, controller, faults>>
       \/ /\ ~(OperatorLoads(file) /\ sound)
          /\ Fail

\* migrate_credential_store: what can be read is saved again, in machine scope.
Migrate ==
    /\ step = "migrate"
    /\ \/ /\ OperatorLoads(file) /\ sound
          /\ step' = "write" /\ memory' = file.cred
          /\ UNCHANGED <<file, tmp, sound, proved, windows, controller, faults>>
       \/ /\ ~(OperatorLoads(file) /\ sound)
          /\ Fail

\* check_credential_store: save, load and clear a probe next to the file.
CheckStore ==
    /\ step = "check"
    /\ \/ /\ sound
          /\ step' = "enroll"
          /\ UNCHANGED <<memory, file, tmp, sound, proved, windows, controller, faults>>
       \/ ~sound /\ Fail

\* ensure_credential: the controller takes the token and binds the station, or
\* refuses.
Enroll ==
    /\ step = "enroll"
    /\ \/ /\ fresh /\ bound = 0 /\ issued < MaxIssued
          /\ fresh' = FALSE /\ issued' = issued + 1 /\ bound' = issued + 1
          /\ step' = "answer"
          /\ UNCHANGED <<memory, file, tmp, sound, proved, windows, faults>>
       \/ /\ ~(fresh /\ bound = 0 /\ issued < MaxIssued)
          /\ Fail

\* Its answer arrives.
Answer ==
    /\ Go("answer", "write")
    /\ memory' = issued
    /\ UNCHANGED <<file, tmp, sound, proved, windows, controller, faults>>

\* Mutant: the blob is written to its place at once.
Write_InPlace ==
    /\ step = "write"
    /\ \/ /\ sound
          /\ step' = "secure"
          /\ file' = [cred |-> memory, scope |-> "machine", whole |-> FALSE, secured |-> FALSE]
          /\ tmp' = file'
          /\ UNCHANGED <<memory, sound, proved, windows, controller, faults>>
       \/ ~sound /\ Fail

\* save: the protected blob is on its way to a temporary file.
Write ==
    /\ step = "write"
    /\ \/ /\ sound
          /\ step' = "secure"
          /\ tmp' = [cred |-> memory, scope |-> "machine", whole |-> FALSE, secured |-> FALSE]
          /\ UNCHANGED <<memory, file, sound, proved, windows, controller, faults>>
       \/ ~sound /\ Fail

\* Written, synced and given its ACL (WindowsCredentialFileSecurity.secure);
\* when that fails the temporary file is unlinked.
Secure ==
    /\ step = "secure"
    /\ \/ /\ sound
          /\ step' = "replace" /\ tmp' = [tmp EXCEPT !.whole = TRUE, !.secured = TRUE]
          /\ UNCHANGED memory
       \/ /\ ~sound
          /\ step' = "idle" /\ memory' = 0 /\ tmp' = NoBlob
    /\ UNCHANGED <<file, sound, proved, windows, controller, faults>>

\* os.replace; one that fails (ReplaceFails) unlinks the temporary file.
Replace ==
    /\ Go("replace", "register")
    /\ file' = tmp /\ tmp' = NoBlob /\ memory' = 0
    /\ UNCHANGED <<sound, proved, windows, controller, faults>>

\* Mutant: only created; a service that is there already is an error.
Register_CreateOnly ==
    /\ step = "register"
    /\ \/ /\ ~service.registered
          /\ step' = "start"
          /\ service' = [service EXCEPT !.registered = TRUE]
          /\ UNCHANGED <<memory, file, tmp, sound, proved, removal, outlived, controller, faults>>
       \/ service.registered /\ Fail

\* install_windows_service: created or changed, LocalSystem, automatic start.
Register ==
    /\ Go("register", "start")
    /\ service' = [service EXCEPT !.registered = TRUE]
    /\ UNCHANGED <<memory, file, tmp, sound, proved, removal, outlived, controller, faults>>

\* StartService; 1056, already running, is as good, any other error is not.
StartFails == step = "start" /\ Fail

Start ==
    /\ Go("start", "wait")
    /\ service' = IF service.state = "stopped" THEN [service EXCEPT !.state = "starting"]
                                               ELSE service
    /\ UNCHANGED <<memory, file, tmp, sound, proved, removal, outlived, controller, faults>>

\* The installer polls: running is success, stopped or 30 seconds are failure.
Wait ==
    /\ step = "wait"
    /\ \/ /\ service.state = "running"
          /\ step' = "done"
          /\ UNCHANGED <<memory, file, tmp, sound, proved, windows, controller, faults>>
       \/ service.state # "running" /\ Fail

InstallerStep ==
    \/ Prepare \/ Branch \/ Migrate \/ CheckStore \/ Enroll \/ Answer
    \/ Write \/ Secure \/ Replace \/ Register \/ Start \/ StartFails \/ Wait

-----------------------------------------------------------------------------
(* The service.                                                            *)

\* The process that Windows starts does not get into the service dispatcher: it
\* ends, or the service manager gives up on it (1053, 7009).
SvcFails ==
    /\ service.state = "starting"
    /\ service' = [service EXCEPT !.state = "stopped"]
    /\ UNCHANGED <<step, memory, file, tmp, sound, proved, removal, outlived, controller, faults>>

\* The service framework reports the service as running, then calls SvcDoRun.
SvcRun ==
    /\ service.state = "starting"
    /\ service' = [service EXCEPT !.state = "running"]
    /\ UNCHANGED <<step, memory, file, tmp, sound, proved, removal, outlived, controller, faults>>

\* SvcDoRun: the credential is loaded, or the service stops.
SvcDoRun ==
    /\ service.state = "running" /\ service.cred = 0
    /\ service' = IF ServiceLoads(file) /\ sound
                  THEN [service EXCEPT !.cred = file.cred]
                  ELSE [service EXCEPT !.state = "stopped"]
    /\ UNCHANGED <<step, memory, file, tmp, sound, proved, removal, outlived, controller, faults>>

-----------------------------------------------------------------------------
(* Faults.                                                                 *)

Fault == faults < MaxFaults /\ faults' = faults + 1

\* The installer is killed: no `except`, no `finally`.
KillInstaller ==
    /\ Fault
    /\ step \notin {"idle", "done"}
    /\ step' = "idle" /\ memory' = 0
    /\ UNCHANGED <<file, tmp, sound, proved, windows, controller>>

\* The PC goes down and comes up again; a registered service is started.
Reboot ==
    /\ Fault
    /\ step' = "idle" /\ memory' = 0
    /\ service' = [service EXCEPT !.state = IF service.registered THEN "starting" ELSE "stopped",
                                  !.cred = 0]
    /\ outlived' = FALSE
    /\ UNCHANGED <<file, tmp, sound, proved, removal, controller>>

\* os.replace raises.
ReplaceFails ==
    /\ Fault
    /\ Go("replace", "idle")
    /\ memory' = 0 /\ tmp' = NoBlob
    /\ UNCHANGED <<file, sound, proved, windows, controller>>

\* The enrollment fails although the controller has committed it.
AnswerLost ==
    /\ Fault
    /\ Go("answer", "idle")
    /\ UNCHANGED <<memory, file, tmp, sound, proved, windows, controller>>

\* DPAPI or the ACL calls stop working, and work again.
StoreBreaks ==
    /\ Fault
    /\ sound
    /\ sound' = FALSE
    /\ UNCHANGED <<step, memory, file, tmp, proved, windows, controller>>

StoreRepaired ==
    /\ ~sound
    /\ sound' = TRUE
    /\ proved' = TRUE
    /\ UNCHANGED <<step, memory, file, tmp, windows, controller, faults>>

-----------------------------------------------------------------------------
(* The operator.                                                           *)

\* The station is deleted and created again, with a new token.
NewToken ==
    /\ step \in {"idle", "done"}
    /\ bound = 0 \/ bound # file.cred
    /\ ~fresh /\ issued < MaxIssued
    /\ bound' = 0 /\ fresh' = TRUE
    /\ UNCHANGED <<step, memory, file, tmp, sound, proved, windows, issued, faults>>

\* The operator deletes the station of a working agent.
DeleteStation ==
    /\ Fault
    /\ bound # 0
    /\ bound' = 0 /\ fresh' = FALSE
    /\ UNCHANGED <<step, memory, file, tmp, sound, proved, windows, issued>>

\* A credential file that an installation leaves as it is, or cannot read, and
\* that the controller does not accept.
Stale == Exists(file) /\ (file.cred # bound \/ ~OperatorLoads(file))

\* The documentation asks for a stop before the file is deleted, and gives the
\* stop also as the way to a restart.
StopService ==
    /\ step \in {"idle", "done"}
    /\ Stale \/ outlived
    /\ service' = [service EXCEPT !.state = "stopped", !.cred = 0]
    /\ removal' = Stale /\ outlived' = FALSE
    /\ UNCHANGED <<step, memory, file, tmp, sound, proved, controller, faults>>

\* The service may be up again by then: it is started automatically, and by the
\* installer.
RemoveCredential ==
    /\ step \in {"idle", "done"}
    /\ removal /\ Exists(file)
    /\ file' = NoBlob
    /\ removal' = FALSE /\ outlived' = (service.cred # 0)
    /\ UNCHANGED <<step, memory, tmp, sound, proved, service, controller, faults>>

Working == service.state = "running" /\ service.cred = bound /\ bound # 0

\* The installer is run as long as the agent does not work.
RunInstaller == ~Working /\ StartInstaller

-----------------------------------------------------------------------------

InstallNext ==
    \/ StartInstaller \/ InstallerStep \/ SvcRun \/ SvcFails \/ SvcDoRun
    \/ KillInstaller \/ Reboot \/ ReplaceFails \/ AnswerLost \/ StoreBreaks \/ StoreRepaired
    \/ NewToken \/ DeleteStation \/ StopService \/ RemoveCredential

\* The programs run on; a broken store is repaired; the operator runs the
\* installer until the agent works, and gets a new token for it.  Nobody is
\* relied upon to remove a credential file.
InstallSpec ==
    /\ InstallInit /\ [][InstallNext]_installVars
    /\ WF_installVars(InstallerStep) /\ WF_installVars(SvcRun \/ SvcFails \/ SvcDoRun)
    /\ WF_installVars(StoreRepaired) /\ WF_installVars(RunInstaller)
    /\ SF_installVars(NewToken)

-----------------------------------------------------------------------------
(* Correctness.                                                            *)

\* Every variable has its type.
InstallTypeOK ==
    /\ step \in Steps /\ memory \in Credentials
    /\ file \in Blob /\ tmp \in Blob
    /\ sound \in BOOLEAN /\ proved \in BOOLEAN
    /\ service \in Service /\ removal \in BOOLEAN /\ outlived \in BOOLEAN
    /\ bound \in Credentials /\ issued \in Credentials /\ fresh \in BOOLEAN
    /\ faults \in 0..MaxFaults

\* Whenever the installer or the PC dies, the credential file is complete, and
\* in machine scope only with its ACL set (_write_bytes_atomically).
FileIsWhole ==
    Exists(file) => file.whole /\ (file.scope = "machine" => file.secured)

\* A token is not used on a PC whose credential store has not worked since the
\* installer was started (docs/AGENT_DEPLOYMENT.md: the check comes "до
\* использования одноразового token").
TokenNotWasted == [][issued' # issued => proved]_installVars

\* What the PC holds is not lost by an installation, finished or not: only the
\* operator removes a credential, and an enrollment does not replace one.
CredentialSurvives ==
    [][Exists(file) => file'.cred = file.cred \/ (file' = NoBlob /\ step \in {"idle", "done"})]_installVars

\* "Agent installed and running" is said only when the credential on the disk is
\* there for LocalSystem: a file of the old scheme has been saved again.  And the
\* process that is up has no other credential, with one exception: the service
\* had come up again when the operator removed the file, and StartService found
\* it running.  That it will load the file is more than the installer knows: it
\* asks the service manager for the state, which is running before SvcDoRun.
SuccessFitsFile ==
    [][step # "done" /\ step' = "done" =>
         /\ service.state = "running"
         /\ ServiceLoads(file)
         /\ service.cred \in {0, file.cred} \/ outlived]_installVars

\* How an agent that the operator keeps installing can still not work in the end,
\* whatever crash, lost answer or broken store there was before: the PC has a
\* credential file that the station is not bound to or that cannot be decrypted,
\* which no installation replaces, new token or not; or the service has outlived
\* the removal of the file; or Windows fails to start the service, for ever.
Recovers ==
    \/ <>[](Working \/ Stale \/ outlived)
    \/ []<><<SvcFails \/ StartFails>>_installVars

=============================================================================
