-------------------------------- MODULE MCPush --------------------------------
(* One user with two phones that cannot share a request, or of which Expo      *)
(* refuses one; two passes over one phone; a browser on which two users log in *)
EXTENDS Push, TLC

CONSTANTS u1, u2, good, bad, odd, web

MCUsers == {u1, u2}
MCPhones == {good, bad, odd}
MCBrowsers == {web}
MCBad == {bad}
MCOdd == {odd}

Uses(ds, users, passes) ==
    [users |-> [d \in MCPhones \cup MCBrowsers |-> IF d \in ds THEN users ELSE {}],
     passes |-> passes]
MCHouseholds ==
    {Uses({good, odd}, {u1}, 1), Uses({good, bad}, {u1}, 1), Uses({good}, {u1}, 2),
     Uses({web}, {u1, u2}, 2)}
=============================================================================
