---------------------------- MODULE ShellScripts ----------------------------
(***************************************************************************)
(* Terminals that the server opens (fresh-terminal-interceptor.ts), and    *)
(* the section that it adds to the user's shell startup scripts while one  *)
(* is open (terminal-scripts.ts).  Every await lets another activation,    *)
(* reset or edit of the user come between.                                 *)
(*                                                                         *)
(* A file is the sequence of its lines, a line the sequence of its parts:  *)
(* <<>> is the empty line that follows the last newline.                   *)
(***************************************************************************)
EXTENDS Naturals, Sequences, SequencesExt, FiniteSetsExt

CONSTANTS
    Activation, \* calls of activate, of any proxy port
    Group,      \* shells, as sequences of scripts, of which one is written
    Forced,     \* those whose last script is created if none exists
    ShellScenario \* records that bound what is explored, see scene

Start == <<"start">>
End == <<"end">>
NoFile == <<>>          \* a file has a line at least

\* The lines that the user writes are not those markers.
ASSUME ShellAssumption ==
    /\ Forced \subseteq Group
    /\ \A g \in Group : g \in Seq(STRING) /\ g # <<>>
    /\ \A s \in ShellScenario : s.shells \subseteq Group /\ s.lines \cap {"start", "end"} = {}

\* Resets: of an activation, of a closed terminal's timer, of deactivateAll.
Reset == (Activation \X {"edit", "timer"}) \cup {<<"all", "reset">>}
ResetAll == <<"all", "reset">>

VARIABLES
    scene,      \* the calls that are made, the shells that are used, the lines that the
                \* user may write, whether deactivateAll is called, and time stamps
    command,    \* getTerminalCommand: none, without or with startup scripts
    script,     \* script[f]: the lines of a file
    temp,       \* temp[<<f, stamp>>]: the lines of the temporary files next to it
    reset,      \* reset[r][f]: where a reset is with a file
    activation, \* activation[a]: where a call is
    append,     \* append[a]: groups whose script is still to be written
    terminal,   \* terminal[a]: the process
    timer,      \* terminals closed less than 500 ms ago
    closeAll,   \* deactivateAll: where it is, and the terminals it waits for
    mine,       \* history: lines that the user has written, per file
    behind,     \* history: those written behind an end marker
    excused,    \* history: those written while the file was being rewritten
    raced       \* history: a reset came between an activation's writes and its terminal

shellVars == <<scene, command, script, temp, reset, activation, append, terminal, timer, closeAll,
               mine, behind, excused, raced>>

Idle == [phase |-> "none", lines |-> <<>>, stamp |-> 1]

Used == UNION {ToSet(g) : g \in scene.shells}

ShellInit ==
    /\ scene \in ShellScenario
    /\ command \in {"none", "plain", "scripted"}
    /\ script \in [Used -> {NoFile, <<<<"profile">>, <<>>>>}]
    /\ temp = [ft \in Used \X scene.stamps |-> NoFile]
    /\ reset = [r \in Reset |-> [f \in Used |-> Idle]]
    /\ activation = [a \in Activation |-> "new"]
    /\ append = [a \in Activation |-> {}]
    /\ terminal = [a \in Activation |-> "none"]
    /\ timer = {}
    /\ closeAll = [phase |-> "none", on |-> {}]
    /\ mine = [f \in Used |-> IF script[f] = NoFile THEN {} ELSE {"profile"}]
    /\ behind = {} /\ excused = {} /\ raced = FALSE

-----------------------------------------------------------------------------
(* What is in flight.                                                        *)

OpenTerminals == {a \in Activation : terminal[a] = "open"}
Resetting(r) == \E f \in Used : reset[r][f].phase \in {"read", "write", "move"}
Activating == {a \in Activation : activation[a] \in {"command", "edit", "spawn"}}

\* Resets that no activation waits for.
LateReset == {r \in Reset : r[2] # "edit" /\ Resetting(r)}

-----------------------------------------------------------------------------
(* removeConfigSectionsFromFile and resetShellStartupScripts.                *)

StartReset(r) == reset' = [reset EXCEPT ![r] = [f \in Used |-> [Idle EXCEPT !.phase = "read"]]]

StartsWith(line, marker) == line # <<>> /\ Head(line) = Head(marker)
FirstIndex(lines, marker) ==
    LET is == {i \in DOMAIN lines : StartsWith(lines[i], marker)}
    IN  IF is = {} THEN 0 ELSE Min(is)

\* A round of the loop takes the first section away. If its state is odd the file is not
\* edited, which is noted as NoFile.
RemoveSection_Mut(lines) ==     \* and the line behind it
    LET s == FirstIndex(lines, Start)
        e == FirstIndex(lines, End)
    IN  CASE s = 0 -> lines
          [] s # 0 /\ e <= s -> NoFile
          [] OTHER -> SubSeq(lines, 1, s - 1) \o SubSeq(lines, e + 2, Len(lines))

RemoveSection(lines) ==
    LET s == FirstIndex(lines, Start)
        e == FirstIndex(lines, End)
    IN  CASE s = 0 -> lines
          [] s # 0 /\ e <= s -> NoFile
          [] OTHER -> SubSeq(lines, 1, s - 1) \o SubSeq(lines, e + 1, Len(lines))

\* The loop ends after no more rounds than the file has lines.
Strip(file) ==
    LET left[n \in 0..Len(file)] == IF n = 0 THEN file ELSE RemoveSection(left[n - 1])
    IN  left[Len(file)]

\* The file is read, and its sections are taken away in memory.
ReadScript(r, f) ==
    LET lines == IF script[f] = NoFile THEN NoFile ELSE Strip(script[f])
    IN  /\ reset[r][f].phase = "read"
        /\ reset' = [reset EXCEPT ![r][f].phase = IF lines = NoFile THEN "done" ELSE "write",
                                  ![r][f].lines = lines]
        /\ UNCHANGED <<scene, command, script, temp, activation, append, terminal, timer, closeAll,
                       mine, behind, excused, raced>>

\* The temporary file is named after the time, in milliseconds.
WriteTemp(r, f) ==
    /\ reset[r][f].phase = "write"
    /\ \E t \in scene.stamps :
           /\ temp' = [temp EXCEPT ![<<f, t>>] = reset[r][f].lines]
           /\ reset' = [reset EXCEPT ![r][f].phase = "move", ![r][f].stamp = t]
    /\ UNCHANGED <<scene, command, script, activation, append, terminal, timer, closeAll,
                   mine, behind, excused, raced>>

\* It takes the place of the file. If it is gone, that is only logged.
MoveTemp(r, f) ==
    LET t == reset[r][f].stamp
    IN  /\ reset[r][f].phase = "move"
        /\ script' = IF temp[<<f, t>>] = NoFile THEN script ELSE [script EXCEPT ![f] = temp[<<f, t>>]]
        /\ temp' = [temp EXCEPT ![<<f, t>>] = NoFile]
        /\ reset' = [reset EXCEPT ![r][f] = [Idle EXCEPT !.phase = "done"]]
        /\ UNCHANGED <<scene, command, activation, append, terminal, timer, closeAll,
                       mine, behind, excused, raced>>

-----------------------------------------------------------------------------
(* FreshTerminalInterceptor.activate.                                        *)

Activate(a) ==
    /\ a \in scene.calls /\ activation[a] = "new"
    /\ activation' = [activation EXCEPT ![a] = "command"]
    /\ UNCHANGED <<scene, command, script, temp, reset, append, terminal, timer, closeAll,
                   mine, behind, excused, raced>>

\* The terminal is known: editShellStartupScripts, up to its await.
CommandKnown(a) ==
    /\ activation[a] = "command"
    /\ activation' = [activation EXCEPT ![a] =
            CASE command = "none" -> "failed" [] command = "plain" -> "spawn" [] OTHER -> "edit"]
    /\ IF command = "scripted" THEN StartReset(<<a, "edit">>) ELSE UNCHANGED reset
    /\ raced' = (raced \/ LateReset # {})
    /\ UNCHANGED <<scene, command, script, temp, append, terminal, timer, closeAll, mine, behind, excused>>

\* After the reset: the appends are started, and not awaited.
StartAppends(a) ==
    /\ activation[a] = "edit" /\ ~Resetting(<<a, "edit">>)
    /\ activation' = [activation EXCEPT ![a] = "spawn"]
    /\ append' = [append EXCEPT ![a] = scene.shells]
    /\ UNCHANGED <<scene, command, script, temp, reset, terminal, timer, closeAll, mine, behind, excused, raced>>

\* appendToFirstExisting: the section starts with a newline, and does not end with one.
AppendSection(a, g) ==
    LET there == {i \in DOMAIN g : script[g[i]] # NoFile}
        Written(f) == (IF script[f] = NoFile THEN <<<<>>>> ELSE script[f]) \o <<Start, End>>
    IN  /\ g \in append[a]
        /\ append' = [append EXCEPT ![a] = @ \ {g}]
        /\ script' = CASE there # {} -> [script EXCEPT ![g[Min(there)]] = Written(g[Min(there)])]
                       [] there = {} /\ g \in Forced ->
                             [script EXCEPT ![Last(g)] = Written(Last(g))]
                       [] OTHER -> script
        /\ UNCHANGED <<scene, command, temp, reset, activation, terminal, timer, closeAll,
                       mine, behind, excused, raced>>

\* The process is spawned and added to terminals.
Spawn(a) ==
    /\ activation[a] = "spawn"
    /\ activation' = [activation EXCEPT ![a] = "started"]
    /\ terminal' = [terminal EXCEPT ![a] = "open"]
    /\ UNCHANGED <<scene, command, script, temp, reset, append, timer, closeAll, mine, behind, excused, raced>>

\* The terminal is closed, by the user or by deactivate, or it failed: in the first 500 ms
\* a failure rejects the activation, whose promise is of no use to anything else here.
TerminalCloses(a) ==
    /\ terminal[a] = "open"
    /\ terminal' = [terminal EXCEPT ![a] = "closed"]
    /\ timer' = timer \cup {a}
    /\ activation' \in {activation, [activation EXCEPT ![a] = "failed"]}
    /\ UNCHANGED <<scene, command, script, temp, reset, append, closeAll, mine, behind, excused, raced>>

\* 500 ms later. A bound: the appends, which take no such time, are done.
TimerFires_Mut(a) ==
    /\ a \in timer /\ append[a] = {}
    /\ timer' = timer \ {a}
    /\ StartReset(<<a, "timer">>)
    /\ raced' = (raced \/ Activating # {})
    /\ UNCHANGED <<scene, command, script, temp, activation, append, terminal, closeAll, mine, behind, excused>>

TimerFires(a) ==
    /\ a \in timer /\ append[a] = {}
    /\ timer' = timer \ {a}
    /\ IF OpenTerminals = {}
       THEN StartReset(<<a, "timer">>) /\ raced' = (raced \/ Activating # {})
       ELSE UNCHANGED <<reset, raced>>
    /\ UNCHANGED <<scene, command, script, temp, activation, append, terminal, closeAll, mine, behind, excused>>

\* deactivateAll: every terminal is killed and awaited, and then the scripts are reset.
DeactivateAll ==
    /\ scene.all /\ closeAll.phase = "none"
    /\ closeAll' = [phase |-> "closing", on |-> OpenTerminals]
    /\ UNCHANGED <<scene, command, script, temp, reset, activation, append, terminal, timer,
                   mine, behind, excused, raced>>

AllClosed ==
    /\ closeAll.phase = "closing" /\ closeAll.on \cap OpenTerminals = {}
    /\ closeAll' = [closeAll EXCEPT !.phase = "done"]
    /\ StartReset(ResetAll)
    /\ raced' = (raced \/ Activating # {} \/ OpenTerminals # {})
    /\ UNCHANGED <<scene, command, script, temp, activation, append, terminal, timer, mine, behind, excused>>

-----------------------------------------------------------------------------
\* The user adds a line and a newline to a script: it continues the last line.
UserWrites(f, l) ==
    /\ script[f] # NoFile /\ \A g \in Used : l \notin mine[g]
    /\ script' = [script EXCEPT ![f] = Front(@) \o <<Last(@) \o <<l>>, <<>>>>]
    /\ mine' = [mine EXCEPT ![f] = @ \cup {l}]
    /\ behind' = IF StartsWith(Last(script[f]), End) THEN behind \cup {l} ELSE behind
    /\ excused' = IF \E r \in Reset : reset[r][f].phase \in {"write", "move"}
                  THEN excused \cup {l} ELSE excused
    /\ UNCHANGED <<scene, command, temp, reset, activation, append, terminal, timer, closeAll, raced>>

ResetStep == \E r \in Reset, f \in Used : ReadScript(r, f) \/ WriteTemp(r, f) \/ MoveTemp(r, f)

ShellNext ==
    \/ ResetStep
    \/ \E a \in Activation :
           \/ Activate(a) \/ CommandKnown(a) \/ StartAppends(a)
           \/ \E g \in Group : AppendSection(a, g)
           \/ Spawn(a) \/ TerminalCloses(a) \/ TimerFires(a)
    \/ DeactivateAll \/ AllClosed
    \/ \E f \in Used, l \in scene.lines : UserWrites(f, l)

-----------------------------------------------------------------------------
(* Properties.                                                               *)

QuietScripts ==
    /\ Activating = {} /\ timer = {} /\ closeAll.phase # "closing"
    /\ \A a \in Activation : append[a] = {}
    /\ \A r \in Reset : ~Resetting(r)

Sections(f) ==
    IF script[f] = NoFile THEN {} ELSE {i \in DOMAIN script[f] : StartsWith(script[f][i], Start)}

\* Once every terminal is closed, whatever activations, resets and edits overlapped, and
\* also when two resets use one temporary file, no script has a section left
\* (fresh-terminal-interceptor.ts:267-275, terminal-scripts.ts:226-254).
NothingLeftBehind ==
    QuietScripts /\ OpenTerminals = {} => \A f \in Used : Sections(f) = {}

\* While a terminal is open its shell finds the section. The comment is
\* terminal-scripts.ts:167-168: "Find the relevant user shell config file, add the above line
\* to it, so that shells launched with HTTP_TOOLKIT_ACTIVE set use the interception PATH."
OpenShellsAreConfigured ==
    command = "scripted" /\ OpenTerminals # {} /\ QuietScripts =>
        \A g \in scene.shells :
            g \in Forced \/ (\E f \in ToSet(g) : script[f] # NoFile) =>
                \E f \in ToSet(g) : Sections(f) # {}

\* So it does, unless a reset after the close of another one overlapped with the activation
\* (fresh-terminal-interceptor.ts:248, 273).
OpenTerminalIsConfigured == ~raced => OpenShellsAreConfigured

\* Only sections are taken away: a line of the user stays, unless it was written while
\* the file was being rewritten (which terminal-scripts.ts:249-250 accepts), or right
\* behind the end marker.
WrittenIn(f) == IF script[f] = NoFile THEN {} ELSE UNION {ToSet(script[f][i]) : i \in DOMAIN script[f]}
UserLinesAreKept == \A f \in Used : mine[f] \ (excused \cup behind) \subseteq WrittenIn(f)

ScriptsAreRestored == NothingLeftBehind /\ OpenTerminalIsConfigured /\ UserLinesAreKept

\* terminal-scripts.ts:256-257 and fresh-terminal-interceptor.ts:245-246: "strip our extra
\* config line from all config files", and "(very carefully!)": no line is stripped that the user
\* wrote while the file was not being rewritten.
OnlyOurLinesAreStripped == \A f \in Used : mine[f] \ excused \subseteq WrittenIn(f)
=============================================================================
