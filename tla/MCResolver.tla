---------------------------- MODULE MCResolver ------------------------------
(* TLC instance of UpstreamResolver: three servers, one of them reachable  *)
(* by an address that Url::set_host refuses.                               *)
EXTENDS UpstreamResolver

CONSTANTS a, b, c, v6

MCAddresses == {a, b, c, v6}
MCAnswers == {<<a, b, c>>, <<b, v6, a>>, <<v6>>}
=============================================================================
