----------------------------- MODULE DockerBuild -----------------------------
(***************************************************************************)
(* docker-build-injection.ts: a Dockerfile is extended by commands that    *)
(* enable interception, and the output of the build is rewritten, line by  *)
(* line, so that it looks like the output of the original one.             *)
(***************************************************************************)
EXTENDS Naturals, Sequences, SequencesExt, FiniteSetsExt, ArrayFilter

CONSTANTS
    Dockerfile, \* Dockerfiles, as sequences of FROM, RUN and COMMENT
    OutputBound \* a bound: lines that the commands of a build print

ASSUME DockerBuildAssumption ==
    /\ \A f \in Dockerfile : f \in Seq({"FROM", "RUN", "COMMENT"})
    /\ OutputBound \in Nat

VARIABLES
    dockerfile, \* the client's
    at,         \* the step that Docker executes
    inStep,     \* it has not ended
    printed,    \* lines that its commands have printed
    hide,       \* outputToHide
    total,      \* totalStepCount, 0 (-1 in the code) as long as it is not known
    step,       \* step
    shown,      \* what the client is shown, except the lines of commands
    leaked,     \* history: output of an injected command was shown
    faked       \* history: a command has printed a line that looks like a step

buildVars == <<dockerfile, at, inStep, printed, hide, total, step, shown, leaked, faked>>

\* injectionCommands: the two labels mark the injected section.
InjectedCommands == <<"started", "COPY", "ENV", "ended">>

\* injectIntoDockerfile: from the last FROM to the first, so that indexes stay right.
Froms(f) == {i \in DOMAIN f : f[i] = "FROM"}

\* cmds.splice(i, 0, ...injectionCommands), where the first position of cmds is 1.
Splice(cmds, i) == SubSeq(cmds, 1, i) \o InjectedCommands \o SubSeq(cmds, i + 1, Len(cmds))

InjectIntoDockerfile_Mut(f) ==
    LET injected[n \in 0..Len(f)] ==
            CASE n = 0 -> f
              [] n > 0 /\ f[n] = "FROM" -> Splice(injected[n - 1], n)
              [] OTHER -> injected[n - 1]
    IN  injected[Len(f)]

\* injected[n] is what it has become once its last n commands have been looked at.
InjectIntoDockerfile(f) ==
    LET injected[n \in 0..Len(f)] ==
            LET i == Len(f) - n + 1
            IN  CASE n = 0 -> f
                  [] n > 0 /\ f[i] = "FROM" -> Splice(injected[n - 1], i)
                  [] OTHER -> injected[n - 1]
    IN  injected[Len(f)]

CommandsAdded(f) == Cardinality(Froms(f)) * Len(InjectedCommands)

\* Docker executes everything but comments, as numbered steps.
Steps(f) == Without(f, "COMMENT")
Executed == Steps(InjectIntoDockerfile(dockerfile))

BuildInit ==
    /\ dockerfile \in Dockerfile
    /\ at = 0 /\ inStep = FALSE /\ printed = 0
    /\ hide = "none" /\ total = 0 /\ step = 0
    /\ shown = <<>> /\ leaked = FALSE /\ faked = FALSE

-----------------------------------------------------------------------------
\* getBuildOutputPipeline: one line of output. A line has a kind, "step", "end" (of a
\* step), "text", or "aux" without a stream, and a command; a step has a count.
Pipeline(line) ==
    LET isStep == line.kind = "step"
        counted == IF isStep /\ total = 0 THEN line.count - CommandsAdded(dockerfile) ELSE total
        starts == isStep /\ line.cmd = "started"
        skipped == \/ hide = "all"
                   \/ hide = "until-next" /\ line.kind \in {"step", "text"}
        out == CASE starts -> <<[kind |-> "enabling"]>>
                 [] isStep /\ ~starts -> <<[kind |-> "step", cmd |-> line.cmd, k |-> step + 1, n |-> counted]>>
                 [] OTHER -> <<>>
    IN  /\ total' = counted
        /\ hide' = CASE starts -> "all"
                     [] hide = "all" /\ isStep /\ line.cmd = "ended" -> "until-next"
                     [] hide = "until-next" /\ line.kind = "end" -> "none"
                     [] OTHER -> hide
        /\ step' = IF isStep /\ ~starts /\ ~skipped THEN step + 1 ELSE step
        /\ shown' = IF starts \/ ~skipped THEN shown \o out ELSE shown
        /\ leaked' = (leaked \/ (~skipped /\ line.kind = "text" /\ line.cmd \in ToSet(InjectedCommands)))

\* Docker starts the next step.
StepStarts ==
    /\ ~inStep /\ at < Len(Executed)
    /\ at' = at + 1 /\ inStep' = TRUE
    /\ Pipeline([kind |-> "step", cmd |-> Executed[at'], count |-> Len(Executed)])
    /\ UNCHANGED <<dockerfile, printed, faked>>

\* The output of the step, or data without text. A command can print what looks like a
\* step of a build itself.
StepPrints ==
    /\ inStep /\ printed < OutputBound
    /\ printed' = printed + 1
    /\ \/ /\ \E kind \in {"text", "aux"} : Pipeline([kind |-> kind, cmd |-> Executed[at]])
          /\ UNCHANGED faked
       \/ /\ Executed[at] = "RUN"
          /\ Pipeline([kind |-> "step", cmd |-> "fake", count |-> 9])
          /\ faked' = TRUE
    /\ UNCHANGED <<dockerfile, at, inStep>>

StepEnds ==
    /\ inStep
    /\ inStep' = FALSE
    /\ Pipeline([kind |-> "end", cmd |-> Executed[at]])
    /\ UNCHANGED <<dockerfile, at, printed, faked>>

BuildNext == StepStarts \/ StepPrints \/ StepEnds

-----------------------------------------------------------------------------
\* Whatever Docker prints, the client sees the steps of its own Dockerfile, in order,
\* numbered from 1 out of their number, one message in place of each injected section,
\* and nothing that the injected commands print (docker-build-injection.ts:198-255,
\* 137-141); unless a command prints something that looks like a step.
BuildLooksOriginal ==
    LET original == Steps(dockerfile)
        visible(n) == Cardinality({i \in 1..n : shown[i].kind = "step"})
        done == at = Len(Executed) /\ ~inStep
    IN  ~faked =>
        /\ ~leaked
        /\ done => visible(Len(shown)) = Len(original)
        /\ \A i \in DOMAIN shown :
               shown[i].kind = "step" =>
                   LET k == visible(i)
                   IN  /\ k \in DOMAIN original
                       /\ shown[i] = [kind |-> "step", cmd |-> original[k], k |-> k, n |-> Len(original)]
        /\ \A i \in DOMAIN shown :
               shown[i].kind = "enabling" => i > 1 /\ shown[i - 1].kind = "step"
                                                   /\ shown[i - 1].cmd = "FROM"
=============================================================================
