--------------------------- MODULE MCSecureClient ---------------------------
(***************************************************************************)
(* Two fetches over two hosts, a redirect to each kind of URL the client   *)
(* treats differently, and name answers that change between lookups.       *)
(***************************************************************************)
EXTENDS SecureClient

At(scheme, host) == [scheme |-> scheme, host |-> host, userinfo |-> FALSE]

MCUrls ==
    {At("https", "site"), At("http", "site"), At("https", "r4"), At("ftp", "site"),
     At("https", "odd"), [At("https", "other") EXCEPT !.userinfo = TRUE]}

MCAnswers == {{"p4"}, {"p4", "p6"}, {"p6"}, {"p4", "r4"}}

MCPolicies ==
    {[pinned |-> FALSE, private_hosts |-> {}]}
    \cup {[pinned |-> TRUE, private_hosts |-> h] : h \in {{}, {"site"}, {"r4"}}}
=============================================================================
