------------------------------ MODULE MCProcess -----------------------------
(* TLC instance of Process: the environments that start it with and without a
   metrics server, and one that is refused; a Deployment that is up, degraded
   or no longer annotated. *)
EXTENDS Process

Plain == [parses |-> TRUE, user |-> FALSE, scheme |-> "https", host |-> TRUE]

Good(metrics, key) ==
  [apiURL |-> Plain, apiKey |-> key, productID |-> "product", scrapeURL |-> Unset,
   namespaces |-> Unset, interval |-> Junk, timeout |-> Unset, maxBytes |-> Unset,
   mode |-> Unset, metrics |-> metrics]

MCEnvironments == {Good("on", "key"), Good("off", "key"), Good("on", Unset)}

MCWorkloads == {[annotated |-> TRUE, ready |-> 2, replicas |-> 2],
                [annotated |-> TRUE, ready |-> 1, replicas |-> 2],
                [annotated |-> FALSE, ready |-> 0, replicas |-> Unset]}
=============================================================================
