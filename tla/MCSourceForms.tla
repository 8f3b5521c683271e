--------------------------- MODULE MCSourceForms ---------------------------
(* Instances of SourceForms for TLC.                                       *)
EXTENDS SourceForms, TLC

CONSTANTS s1, s2, d1, d2, h1, h2

MCSources == {s1, s2}
MCDatabases == {d1, d2}

(* Sources are only compared for equality.  Safety runs only.              *)
SourceSymmetry == Permutations(MCSources)

MCDatabasesOf == h1 :> {d1} @@ h2 :> {d2}

OnHost(host, dbType, password) ==
    [mode |-> "automatic", exec |-> "local", dbType |-> dbType, host |-> host,
     user |-> "user", password |-> password,
     auth |-> Blank, ssh |-> Blank, secret |-> Blank]

OverSsh(f, auth, secret) ==
    [f EXCEPT !.exec = "remoteSsh", !.ssh = "ssh", !.auth = auth, !.secret = secret]

MCForms == {
    OnHost(h2, "postgres", "pw2"),
    OverSsh(OnHost(h1, "mysql", "pw1"), "key", "k1"),
    [OnHost(h1, "mssql", Blank) EXCEPT !.mode = "manual", !.user = Blank] }
=============================================================================
