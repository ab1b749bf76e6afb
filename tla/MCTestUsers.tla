---------------------------- MODULE MCTestUsers ----------------------------
(* The three fixtures of conftest.py, with the groups that the tests of the *)
(* file tell apart, in the order pytest collects test_hubble.py,            *)
(* test_sso.py and test_traefik_dashboard.py.  The users of the denied tier *)
(* of two fixtures are one name here: a third one they can disturb.         *)
EXTENDS TestUsers

MCPasswords == 1 .. 9
MCNames == {"test", "adm", "none"}
MCFixtures == {"hubble_tiers", "test_users", "traefik_tiers"}
MCMembers == [f \in MCFixtures |-> IF f = "test_users" THEN <<"test", "adm">>
                                   ELSE <<"test", "adm", "none">>]
MCGroups == [test |-> <<"grafana-users", "traefik-users">>,
             adm |-> <<"grafana-admins", "hubble-admins">>,
             none |-> <<>>]
MCRoleOf == [g \in {"grafana-users", "traefik-users", "grafana-admins", "hubble-admins"} |->
                CASE g = "grafana-users" -> <<"grafana", "user">>
                  [] g = "traefik-users" -> <<"traefik", "user">>
                  [] g = "grafana-admins" -> <<"grafana", "admin">>
                  [] g = "hubble-admins" -> <<"hubble", "admin">>]
Test(f, w, s, k) == [fixture |-> f, who |-> w, service |-> s, kind |-> k]
MCTests == <<Test("hubble_tiers", 2, "hubble", "hubble"),
             Test("hubble_tiers", 3, "hubble", "hubble"),
             Test("test_users", 1, "gitlab", "gitlab"),
             Test("test_users", 1, "grafana", "grafana"),
             Test("test_users", 2, "hubble", "token"),
             Test("traefik_tiers", 1, "traefik", "traefik"),
             Test("traefik_tiers", 3, "traefik", "traefik")>>
MCFaulty == {"channel", "command", "settle", "flush", "entry", "kill"}
=============================================================================
