------------------------------- MODULE MCSignIn -------------------------------
(* Instances of SignIn for TLC: two tabs of one browser, or one of another too; two GitHub logins *)
(* that derive the same first name.                                                          *)
EXTENDS SignIn
MCTabs == 1..2
MCThreeTabs == 1..3
MCBrowserOf == <<1, 1>>
MCTwoBrowsers == <<1, 1, 2>>
MCIdentities == {7, 8}
MCNames == {"octo", "gh_octo", "octo_2"}
MCCandidates == [g \in {7, 8} |-> <<"octo", "gh_octo", "octo_2">>]
MCLegacy == {"octo"}
MCServers == {"ts", "go"}
=============================================================================
