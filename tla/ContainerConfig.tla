--------------------------- MODULE ContainerConfig ---------------------------
(***************************************************************************)
(* docker-commands.ts, docker-compose.ts and terminal-env-overrides.ts:    *)
(* how the configuration of a container is rewritten to intercept it, and  *)
(* what clients of the API proxies are told about it.  A container can be  *)
(* intercepted again, by another port.                                     *)
(*                                                                         *)
(* A value is a sequence: of the parts of a path, of options, or of        *)
(* suffixes of a hash; "inherited" is what was there before.               *)
(***************************************************************************)
EXTENDS Naturals, Sequences, SequencesExt, Functions, ArrayFilter

CONSTANTS
    Port,       \* proxy ports, as strings
    RewriteBound\* a bound: how often a container is intercepted

ASSUME ConfigAssumption == "none" \notin Port /\ RewriteBound \in Nat

VARIABLES
    config,     \* of the container: env, binds, port label and compose hash
    interceptor,\* history: the port that has intercepted it last, or "none"
    rewrites    \* how often it has been

configVars == <<config, interceptor, rewrites>>

Variable == {"HTTP_PROXY", "PATH", "RUBYLIB", "NODE_OPTIONS", "JAVA_TOOL_OPTIONS", "DOCKER_HOST"}

\* What envArrayToObject makes of an array: the last entry of a variable counts, and one
\* that is not there is empty.
Lookup(env, v) ==
    LET entries == {i \in DOMAIN env : env[i].var = v}
    IN  IF entries = {} THEN <<>> ELSE env[Max(entries)].value

\* getTerminalEnvVars: a variable of each kind. Some replace what was there, some are
\* put before it, and some after.
GetTerminalEnvVars_Mut(port, env) ==
    [v \in Variable |->
        CASE v = "HTTP_PROXY" -> IF Lookup(env, v) = <<>> THEN <<port>> ELSE Lookup(env, v)
          [] v \in {"PATH", "RUBYLIB"} -> <<"overrides">> \o Lookup(env, v)
          [] v = "JAVA_TOOL_OPTIONS" -> Lookup(env, v) \o <<port>>
          [] v = "NODE_OPTIONS" -> <<"prepend">>
          [] v = "DOCKER_HOST" -> <<port>>]

GetTerminalEnvVars(port, env) ==
    [v \in Variable |->
        CASE v = "HTTP_PROXY" -> <<port>>
          [] v \in {"PATH", "RUBYLIB"} -> <<"overrides">> \o Lookup(env, v)
          [] v = "JAVA_TOOL_OPTIONS" -> Lookup(env, v) \o <<port>>
          [] v = "NODE_OPTIONS" -> <<"prepend">>
          [] v = "DOCKER_HOST" -> <<port>>]

EnvObjectToArray(vars) ==
    SetToSeq({[var |-> v, value |-> vars[v]] : v \in DOMAIN vars})

\* transformComposeCreationLabels, and transformComposeResponseLabels.
TransformComposeCreationLabels(port, hash) == IF hash = <<>> THEN hash ELSE Append(hash, port)

TransformComposeResponseLabels(port, hash) ==
    CASE hash = <<>> -> hash
      [] hash # <<>> /\ Last(hash) = port -> Front(hash)
      [] OTHER -> Append(hash, "unintercepted")

\* transformContainerCreationConfig. DOCKER_HOST is not injected, and the volume takes
\* the place of one that was mounted there before.
TransformContainerCreationConfig(port, c, imageEnv) ==
    LET env == imageEnv \o c.env
    IN  [env |-> env \o EnvObjectToArray(Restrict(GetTerminalEnvVars(port, env),
                                                 Variable \ {"DOCKER_HOST"})),
         binds |-> Append(Without(c.binds, "injections"), "injections"),
         label |-> port,
         hash |-> TransformComposeCreationLabels(port, c.hash)]

Inherited(vs) == SetToSeq({[var |-> v, value |-> <<"inherited">>] : v \in vs})

ConfigInit ==
    /\ config \in [env : {Inherited({}), Inherited({"PATH", "JAVA_TOOL_OPTIONS", "DOCKER_HOST"})},
                   binds : {<<>>, <<"data">>},
                   label : {"none"},
                   hash : {<<>>, <<"hash">>}]
    /\ interceptor = "none" /\ rewrites = 0

\* Created through the proxy of a port, from an image with an environment of its own, or
\* intercepted when it runs already: the container's own configuration is rewritten.
Rewrite(port) ==
    /\ rewrites < RewriteBound
    /\ \E imageVars \in IF rewrites = 0 THEN {{}, {"PATH", "RUBYLIB"}} ELSE {{}} :
           config' = TransformContainerCreationConfig(port, config, Inherited(imageVars))
    /\ interceptor' = port /\ rewrites' = rewrites + 1

ConfigNext == \E port \in Port : Rewrite(port)

-----------------------------------------------------------------------------
\* Whichever ports have intercepted a container, one after the other (docker-commands.
\* ts:128-129, "to switch from one proxy port to another"): its traffic is sent to the
\* last one, the overrides come first and its own paths and options are kept, the data
\* is mounted once, Docker's own socket is not replaced. A client of docker-compose is
\* shown a container with the hash that it expects only if its own port has intercepted
\* it (docker-compose.ts:18-19).
ConfigIsOfLastPort ==
    interceptor # "none" =>
        /\ config.label = interceptor
        /\ Lookup(config.env, "HTTP_PROXY") = <<interceptor>>
        /\ Head(Lookup(config.env, "PATH")) = "overrides"
        /\ Last(Lookup(config.env, "JAVA_TOOL_OPTIONS")) = interceptor
        /\ \A v \in {"PATH", "JAVA_TOOL_OPTIONS"} :
               (\E e \in ToSet(config.env) : e.var = v /\ e.value = <<"inherited">>) =>
                   "inherited" \in ToSet(Lookup(config.env, v))
        /\ Lookup(config.env, "DOCKER_HOST") \in {<<>>, <<"inherited">>}
        /\ \E i \in DOMAIN config.binds :
               \A j \in DOMAIN config.binds : config.binds[j] = "injections" <=> j = i
        /\ \A port \in Port :
               TransformComposeResponseLabels(port, config.hash) = <<"hash">> => port = interceptor
=============================================================================
