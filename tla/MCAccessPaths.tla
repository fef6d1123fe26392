---------------------------- MODULE MCAccessPaths ----------------------------
EXTENDS AccessPaths, TLC

Root == <<"t1", "root">>
Bob == <<"t1", "bob">>
OtherBob == <<"t2", "bob">>

MCAccounts == {Root, Bob, OtherBob}

MCFirstRoles == [a \in MCAccounts |-> IF a = Bob THEN {"user"} ELSE {"security_admin"}]

\* Two administrators who may remove each other, and checks of a namesake in
\* another tenant; the author and the approver of a policy.
MCCalls ==
  { [kind |-> "assign", caller |-> Root, target |-> Bob, role |-> "security_admin"],
    [kind |-> "remove", caller |-> Root, target |-> Bob, role |-> "security_admin"],
    [kind |-> "remove", caller |-> Bob, target |-> Root, role |-> "security_admin"],
    [kind |-> "check", caller |-> Bob, perm |-> "device:enroll", foreign |-> TRUE],
    [kind |-> "check", caller |-> OtherBob, perm |-> "key:rotate", foreign |-> FALSE],
    [kind |-> "duties", caller |-> Root, approver |-> Bob] }

MCGrantOf == "s1" :> "g1" @@ "s2" :> "g1" @@ "s3" :> "g1" @@ "s4" :> "g2"
MCDeviceOf == "s1" :> "d1" @@ "s2" :> "d2" @@ "s3" :> "d1" @@ "s4" :> "d1"

MCVia == "l1" :> "pam" @@ "l2" :> "authkeys" @@ "l3" :> "tailssh"

===============================================================================
