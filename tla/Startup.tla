------------------------------ MODULE Startup -------------------------------
(***************************************************************************)
(* cmd/zensu-monitoring-agent/main.go: the environment readers and run up  *)
(* to its call of Agent.Run, with NewMetricSource and validateURL of       *)
(* internal/agent.  One action per stage that can refuse.                  *)
(*                                                                         *)
(* A raw variable is Unset, Junk (a text its parser rejects) or a value,   *)
(* trimmed and in lower case where the reader does that first; a URL is    *)
(* what url.Parse finds in it; a list is the sequence of its elements.     *)
(***************************************************************************)
EXTENDS Filtering

CONSTANTS Environments,   \* the environments the process may be started in
          Unset, Junk,
          DefaultInterval, DefaultTimeout

ASSUME DefaultsAssumption == DefaultInterval > 0 /\ DefaultTimeout > 0

(* strings.Split: a list that is set is a sequence of texts. *)
ASSUME ListsAssumption ==
  \A e \in Environments : e.namespaces = Unset \/ e.namespaces \in Seq(STRING)

VARIABLES env,      \* os.Getenv, by what the variable is for
          once,     \* the -once flag
          stage,    \* how far run is
          cfg,      \* agent.Config and the scrape timeout and cap
          source,   \* which MetricSource was built
          server,   \* whether the goroutine of metrics.Serve was started
          lines,    \* kinds of line logged so far
          status    \* the exit status, once run has returned

startVars == <<env, once, stage, cfg, source, server, lines, status>>

Modes == {"auto", "metrics-server", "exposition", "none"}

-----------------------------------------------------------------------------
(* The readers. *)
EnvOr(raw, default) == IF raw = Unset THEN default ELSE raw

EnvBool(raw, default) ==
  IF raw = Unset THEN default ELSE raw \in {"1", "true", "yes", "on"}

(* A slip: a zero interval accepted. *)
EnvDurationZero(raw, default) == IF raw \in Int /\ raw >= 0 THEN raw ELSE default

EnvDuration(raw, default) == IF raw \in Int /\ raw > 0 THEN raw ELSE default

EnvInt64(raw, default) == IF raw \in Int /\ raw > 0 THEN raw ELSE default

NotBlank(raw) == {k \in DOMAIN raw : raw[k] # ""}

EnvList(raw, default) ==
  LET kept == IF raw = Unset THEN <<>> ELSE Subsequence(raw, NotBlank(raw))
  IN  IF kept = <<>> THEN default ELSE kept

(* validateURL, for both URLs. *)
ValidURL(u) == u.parses /\ ~u.user /\ u.scheme \in {"http", "https"} /\ u.host

(* A slip: the scrape URL checked in the modes that scrape only. *)
RequiredConfigByMode(e) ==
  /\ e.apiURL # Unset /\ e.apiKey # Unset /\ e.productID # Unset
  /\ ValidURL(e.apiURL)
  /\ e.scrapeURL = Unset \/ e.mode \in {"none", "metrics-server"} \/ ValidURL(e.scrapeURL)

(* requiredConfig: what would make it return nil. *)
RequiredConfig(e) ==
  /\ e.apiURL # Unset /\ e.apiKey # Unset /\ e.productID # Unset
  /\ ValidURL(e.apiURL)
  /\ e.scrapeURL = Unset \/ ValidURL(e.scrapeURL)

ConfigOf(e) ==
  [namespaces |-> EnvList(e.namespaces, <<"default">>),
   interval   |-> EnvDuration(e.interval, DefaultInterval),
   timeout    |-> EnvDuration(e.timeout, DefaultTimeout),
   maxBytes   |-> EnvInt64(e.maxBytes, 0),
   mode       |-> EnvOr(e.mode, "auto"),
   scrapeURL  |-> e.scrapeURL]

(* A slip: judged by the name the source has at start-up, which for auto is
   its primary's. *)
ExpositionReachableByName(c) == c.scrapeURL # Unset /\ c.mode = "exposition"

ExpositionReachable(c) == c.scrapeURL # Unset /\ c.mode \in {"exposition", "auto"}

MetricsEnabled == EnvBool(env.metrics, TRUE) /\ ~once

(* NewMetricSource; "refused" for every error it returns. *)
NewMetricSource(c) ==
  CASE c.mode \in {"none", "metrics-server"} -> c.mode
    [] c.mode = "auto" /\ c.scrapeURL = Unset -> "metrics-server"
    [] c.mode \in {"auto", "exposition"} /\ c.scrapeURL # Unset ->
         IF ValidURL(c.scrapeURL) THEN c.mode ELSE "refused"
    [] OTHER -> "refused"

-----------------------------------------------------------------------------
NoConfig == [namespaces |-> <<>>, interval |-> 0, timeout |-> 0, maxBytes |-> 0,
             mode |-> "none", scrapeURL |-> Unset]

StartInit ==
  /\ env \in Environments /\ once \in BOOLEAN
  /\ stage = "config" /\ cfg = NoConfig /\ source = "nil"
  /\ server = FALSE /\ lines = {} /\ status = 0

(* run returns an error: main logs it and exits with 1. *)
Refuse ==
  /\ stage' = "refused" /\ status' = 1
  /\ lines' = lines \cup {"error"}

ReadConfig ==
  /\ stage = "config"
  /\ IF RequiredConfig(env)
     THEN cfg' = ConfigOf(env) /\ stage' = "lister" /\ UNCHANGED <<lines, status>>
     ELSE Refuse /\ UNCHANGED cfg
  /\ UNCHANGED <<env, once, source, server>>

(* NewInClusterLister only reads the mounted ServiceAccount; it asks no one. *)
NewLister(mounted) ==
  /\ stage = "lister"
  /\ IF mounted THEN stage' = "source" /\ UNCHANGED <<lines, status>> ELSE Refuse
  /\ UNCHANGED <<env, once, cfg, source, server>>

BuildSource ==
  /\ stage = "source"
  /\ source' = NewMetricSource(cfg)
  /\ IF source' = "refused"
     THEN Refuse
     ELSE /\ stage' = "launch"
          /\ lines' = IF once /\ ExpositionReachable(cfg) THEN lines \cup {"caveat"} ELSE lines
          /\ UNCHANGED status
  /\ UNCHANGED <<env, once, cfg, server>>

(* The goroutine of Serve, then Run, which refuses an interval NewTicker would
   panic on. *)
Launch ==
  /\ stage = "launch"
  /\ server' = MetricsEnabled
  /\ IF once \/ cfg.interval > 0
     THEN stage' = "running" /\ UNCHANGED <<lines, status>>
     ELSE Refuse
  /\ UNCHANGED <<env, once, cfg, source>>

StartNext ==
  ReadConfig \/ (\E mounted \in BOOLEAN : NewLister(mounted)) \/ BuildSource \/ Launch

StartSpec == StartInit /\ [][StartNext]_startVars

-----------------------------------------------------------------------------
(* A part of Process's type invariant. *)
StartTypeOK ==
  /\ env \in Environments /\ once \in BOOLEAN
  /\ stage \in {"config", "lister", "source", "launch", "running", "refused", "exited"}
  /\ DOMAIN cfg = DOMAIN NoConfig
  /\ source \in {"nil", "none", "metrics-server", "auto", "exposition", "refused"}
  /\ server \in BOOLEAN
  /\ lines \subseteq {"error", "caveat"}
  /\ status \in {0, 1}

(* What starts can run: whatever the texts in the environment are, the loop has
   a namespace to list and no blank one, a ticker and an HTTP client that work,
   and no URL with credentials or without a host is accepted, used or not
   (requiredConfig and the readers). *)
ConfigIsUsable ==
  stage \in {"launch", "running"} =>
    /\ cfg.namespaces # <<>> /\ \A k \in DOMAIN cfg.namespaces : cfg.namespaces[k] # ""
    /\ cfg.interval > 0 /\ cfg.timeout > 0 /\ cfg.maxBytes >= 0
    /\ \A u \in {env.apiURL, env.scrapeURL} \ {Unset} : ValidURL(u)

(* The one-shot caveat is decided from the configuration, the source is built
   from it elsewhere: the operator is warned in exactly the one-shot runs whose
   source can come to scrape (expositionReachable, NewMetricSource). *)
CaveatMatchesSource ==
  stage = "running" => ("caveat" \in lines <=> once /\ source \in {"auto", "exposition"})

(* A refused start leaves nothing behind: every refusal comes before the
   goroutine of the metrics server, is logged, and exits with 1 (run). *)
RefusalStartsNothing ==
  stage = "refused" => ~server /\ "error" \in lines /\ status = 1
=============================================================================
