---------------------------- MODULE SystemCerts ----------------------------
(***************************************************************************)
(* The certificate that is put among a rooted device's system certificates *)
(* (android-adb-interceptor.ts, injectSystemCertIfPossible, with           *)
(* getRootCommand, hasCertInstalled, injectSystemCertificate and           *)
(* setChromeFlags of adb-commands.ts).  The script runs on the device,     *)
(* where it goes on when the server has stopped waiting for it, ends with  *)
(* its first command that fails, and shares its files with other runs.     *)
(*                                                                         *)
(* Certificates are told apart only as the device's own, ours, and one of  *)
(* an earlier configuration, which has the same file name as ours.         *)
(***************************************************************************)
EXTENDS Naturals, FiniteSets

CONSTANTS
    Inject,     \* activations of the device, for any port
    Reboots     \* bound on the device's restarts

ASSUME InjectAssumption == Reboots \in Nat

NoApex == {"noApex"}

VARIABLES
    system,     \* certificates seen at /system/etc/security/cacerts
    apex,       \* those at /apex/com.android.conscrypt/cacerts, which new apps use
    copy,       \* those in htk-ca-copy
    pushed,     \* our file is in the temporary directory
    flags,      \* Chrome trusts our certificate
    injecting,  \* injecting[i]: where an activation is
    line,       \* line[i]: the line that its script is at
    ended,      \* ended[i]: whether the script has said that it succeeded
    reboots,
    parallel,   \* history: two scripts ran at a time
    interrupted \* history: a script ended in the middle

certVars == <<system, apex, copy, pushed, flags, injecting, line, ended, reboots, parallel, interrupted>>

CertInit ==
    /\ system \in {{"own"}, {"own", "old"}}
    /\ apex \in {NoApex, {"own"}}
    /\ copy = {} /\ pushed = FALSE /\ flags = FALSE
    /\ injecting = [i \in Inject |-> "new"]
    /\ line = [i \in Inject |-> "none"]
    /\ ended = [i \in Inject |-> "none"]
    /\ reboots = 0 /\ parallel = FALSE /\ interrupted = FALSE

KeepsFiles == UNCHANGED <<system, apex, copy, reboots>>
KeepsScripts == UNCHANGED <<line, ended, parallel, interrupted>>
InjectGoesTo(i, at) == injecting' = [injecting EXCEPT ![i] = at]
Running == {i \in Inject : line[i] \notin {"none", "end"}}

-----------------------------------------------------------------------------
(* The server.                                                               *)

\* The root commands are tried: without one the certificate is not injected.
RootFound(i) ==
    /\ injecting[i] = "new"
    /\ \E rooted \in BOOLEAN : InjectGoesTo(i, IF rooted THEN "check" ELSE "skipped")
    /\ UNCHANGED <<pushed, flags>> /\ KeepsFiles /\ KeepsScripts

\* hasCertInstalled, whose failure counts as "no".
HasCert == "ours" \in system /\ (apex = NoApex \/ "ours" \in apex)

CertChecked(i) ==
    /\ injecting[i] = "check"
    /\ \/ HasCert /\ InjectGoesTo(i, "flags")
       \/ InjectGoesTo(i, "push")
    /\ UNCHANGED <<pushed, flags>> /\ KeepsFiles /\ KeepsScripts

\* The certificate and the script are pushed, and the script is started.
ScriptStarts(i) ==
    /\ injecting[i] = "push"
    /\ InjectGoesTo(i, "run")
    /\ pushed' = TRUE
    /\ line' = [line EXCEPT ![i] = "clear"]
    /\ parallel' = (parallel \/ Running # {})
    /\ UNCHANGED <<flags, ended, interrupted>> /\ KeepsFiles

\* The certificate's push or setChromeFlags fails: that ends injectSystemCertIfPossible, but
\* not the activation.
PushFails(i) ==
    /\ injecting[i] \in {"push", "flags"}
    /\ InjectGoesTo(i, "skipped")
    /\ UNCHANGED <<pushed, flags>> /\ KeepsFiles /\ KeepsScripts

\* The script's push fails, which is only logged: the certificate stays where it is.
ScriptPushFails(i) ==
    /\ injecting[i] = "push"
    /\ InjectGoesTo(i, "flags")
    /\ pushed' = TRUE
    /\ UNCHANGED flags /\ KeepsFiles /\ KeepsScripts

\* Its output is there, or 10 s have passed: either way the activation goes on.
ScriptAwaited(i) ==
    /\ injecting[i] = "run"
    /\ InjectGoesTo(i, "flags")
    /\ UNCHANGED <<pushed, flags>> /\ KeepsFiles /\ KeepsScripts

\* setChromeFlags; then the activation goes on.
SetChromeFlags(i) ==
    /\ injecting[i] = "flags"
    /\ InjectGoesTo(i, "done")
    /\ flags' = TRUE
    /\ UNCHANGED pushed /\ KeepsFiles /\ KeepsScripts

-----------------------------------------------------------------------------
(* The script of injectSystemCertificate.                                    *)

Succeeds(i, next) ==
    /\ line' = [line EXCEPT ![i] = next]
    /\ ended' = IF next = "end" THEN [ended EXCEPT ![i] = "ok"] ELSE ended
    /\ UNCHANGED <<injecting, flags, reboots, parallel, interrupted>>

\* set -e; a pattern that matches no file makes cp and mv fail.
Fails(i) ==
    /\ line' = [line EXCEPT ![i] = "end"]
    /\ ended' = [ended EXCEPT ![i] = "failed"]
    /\ UNCHANGED <<system, apex, copy, pushed, injecting, flags, reboots, parallel, interrupted>>

ClearCopy(i) ==
    /\ line[i] = "clear"
    /\ copy' = {}
    /\ Succeeds(i, "copy") /\ UNCHANGED <<system, apex, pushed>>

CopyOut(i) ==
    LET from == IF apex # NoApex THEN apex ELSE system
    IN  /\ line[i] = "copy"
        /\ IF from = {} THEN Fails(i)
           ELSE copy' = copy \cup from /\ Succeeds(i, "mount") /\ UNCHANGED <<system, apex, pushed>>

Mount(i) ==
    /\ line[i] = "mount"
    /\ system' = {}
    /\ Succeeds(i, "back") /\ UNCHANGED <<apex, copy, pushed>>

MoveBack_Mut(i) ==
    /\ line[i] = "back"
    /\ Succeeds(i, "ours") /\ UNCHANGED <<system, apex, copy, pushed>>

MoveBack(i) ==
    /\ line[i] = "back"
    /\ IF copy = {} THEN Fails(i)
       ELSE system' = system \cup copy /\ copy' = {} /\ Succeeds(i, "ours") /\ UNCHANGED <<apex, pushed>>

\* Our file takes the place of an old one.
MoveOurs(i) ==
    /\ line[i] = "ours"
    /\ IF ~pushed THEN Fails(i)
       ELSE /\ system' = (system \ {"old"}) \cup {"ours"}
            /\ pushed' = FALSE
            /\ Succeeds(i, "bind") /\ UNCHANGED <<apex, copy>>

\* Modes and labels; then the bind mounts for the shell, the zygotes and the apps.
BindApex(i) ==
    /\ line[i] = "bind"
    /\ apex' = IF apex = NoApex THEN NoApex ELSE system
    /\ Succeeds(i, "end") /\ UNCHANGED <<system, copy, pushed>>

\* A command fails for some other reason, or the script is killed.
Interrupt(i) ==
    /\ i \in Running
    /\ line' = [line EXCEPT ![i] = "end"]
    /\ ended' = [ended EXCEPT ![i] = "failed"]
    /\ interrupted' = TRUE
    /\ UNCHANGED <<system, apex, copy, pushed, flags, injecting, reboots, parallel>>

ScriptLine(i) ==
    ClearCopy(i) \/ CopyOut(i) \/ Mount(i) \/ MoveBack(i) \/ MoveOurs(i) \/ BindApex(i) \/ Interrupt(i)

\* The mounts are gone; files of the temporary directory stay. A bound: no script runs.
Reboot ==
    /\ Running = {} /\ reboots < Reboots
    /\ reboots' = reboots + 1
    /\ system' = {"own"}
    /\ apex' = IF apex = NoApex THEN NoApex ELSE {"own"}
    /\ ended' = [i \in Inject |-> IF ended[i] = "ok" THEN "rebooted" ELSE ended[i]]
    /\ UNCHANGED <<copy, pushed, flags, injecting, line, parallel, interrupted>>

CertNext ==
    \/ \E i \in Inject :
           \/ RootFound(i) \/ CertChecked(i) \/ ScriptStarts(i) \/ PushFails(i) \/ ScriptPushFails(i)
           \/ ScriptAwaited(i) \/ SetChromeFlags(i) \/ ScriptLine(i)
    \/ Reboot

\* On its own, for one run.
CertSpec == CertInit /\ [][CertNext]_certVars

-----------------------------------------------------------------------------
Trusts(cert) == cert \in system /\ (apex = NoApex \/ cert \in apex)

\* However often a device is activated and restarted, and also when a script goes on after
\* the server has stopped waiting: between scripts the device trusts its own certificates,
\* and ours once a script has said so, until the device restarts. Scripts that run at a
\* time, for two ports, or that are interrupted void this.
CertsAreInjected ==
    ~parallel /\ ~interrupted /\ Running = {} =>
        /\ Trusts("own")
        /\ (\E i \in Inject : ended[i] = "ok") => Trusts("ours")

\* adb-commands.ts:448: "Copy the existing certs back into the tmpfs mount, so we keep
\* trusting them": also when the device is activated for two ports at a time.
ExistingCertsAreKept == Running = {} /\ ~interrupted => Trusts("own")
=============================================================================
