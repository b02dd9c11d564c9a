------------------------------ MODULE MCStartup -----------------------------
(* TLC instance of Startup: every combination of settings that are missing,
   unreadable, at the edge of what is accepted, or good. *)
EXTENDS Startup

Url(parses, user, scheme, host) ==
  [parses |-> parses, user |-> user, scheme |-> scheme, host |-> host]

Plain == Url(TRUE, FALSE, "https", TRUE)
BadUrls == {Url(FALSE, FALSE, "", FALSE), Url(TRUE, TRUE, "http", TRUE),
            Url(TRUE, FALSE, "", FALSE), Url(TRUE, FALSE, "https", FALSE)}

MCEnvironments ==
  [apiURL : {Unset, Plain} \cup BadUrls, apiKey : {Unset, "key"}, productID : {"product"},
   scrapeURL : {Unset, Plain} \cup BadUrls,
   namespaces : {Unset, <<"", "">>, <<"a", "">>, <<"a", "b">>},
   interval : {Unset, Junk, 0, 30}, timeout : {Unset, 0}, maxBytes : {Unset, -1},
   mode : {Unset, "typo"} \cup Modes, metrics : {Unset, "on", "junk"}]
=============================================================================
