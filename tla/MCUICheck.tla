----------------------------- MODULE MCUICheck ------------------------------
(***************************************************************************)
(* Instances of UICheck: half-second ticks, a budget of three seconds.     *)
(***************************************************************************)
EXTENDS UICheck, TLC

(* Unsorted lists, one with a repeated address (a static list keeps it). *)
DiscoveredLists == {<<2, 1>>, <<3, 1, 2>>, <<3, 2, 2, 1>>}
PairLists       == {<<2, 1>>, <<1>>}

Texts == "500ms" :> 1 @@ "10s" :> 20

(* One target, asked about in every way there is: first as documented. *)
Db     == [host |-> "db", port |-> "80"]
Login  == [username |-> "ann", password |-> "pw"]
Timed  == {<<>>, [timeout |-> "500ms"], [timeout |-> "10s"]}

Body(kind, fields) == [kind |-> kind, fields |-> fields, fits |-> TRUE, size |-> "small"]
NoBody             == Body("bad", <<>>)

Link(fields)         == [method |-> "GET", path |-> IndexPath, contentType |-> "other",
                         query |-> fields, body |-> NoBody]
Post(path, ct, body) == [method |-> "POST", path |-> path, contentType |-> ct,
                         query |-> <<>>, body |-> body]

Submit(fields)    == Post(IndexPath, "form", Body("form", fields))
Call(path, fields) == Post(path, "json", Body("json", fields))

Plain == UNION {{Link(Db @@ t), Submit(Db @@ t),
                 Submit(Db @@ Login @@ [check |-> "postgres"] @@ t),
                 Call(TCPPath, Db @@ t), Call(PostgresPath, Db @@ Login @@ t)} : t \in Timed}

(* What is wrong with these differs for the two who read them. *)
Odd == {Link(<<>>), Link(Db @@ [proto |-> "udp"]), Link(Db @@ Login @@ [check |-> "postgres"]),
        Link([Db EXCEPT !.port = "0"]), Link([host |-> "db"]), Submit([Db EXCEPT !.host = ""]),
        [Link(Db) EXCEPT !.path = "/other"], [Link(Db) EXCEPT !.path = TCPPath],
        Submit(Db @@ [check |-> "postgres"]), Submit(Db @@ [timeout |-> "soon"]),
        Call(PostgresPath, Db), Call(TCPPath, [Db EXCEPT !.port = "70000"]),
        [Submit(<<>>) EXCEPT !.query = Db],
        [Submit(Db) EXCEPT !.method = "PUT"], [Submit(Db) EXCEPT !.contentType = "json"],
        [Submit(Db) EXCEPT !.body.size = "large"], Post(IndexPath, "form", NoBody),
        [Call(TCPPath, Db) EXCEPT !.contentType = "other"],
        [Call(TCPPath, Db) EXCEPT !.body.fits = FALSE],
        [Call(TCPPath, Db) EXCEPT !.body.size = "padded"],
        [Call(PostgresPath, Db @@ Login) EXCEPT !.body.size = "large"]}

Asks == Plain \cup Odd

(* A client that writes addresses of its own into the header, behind none,
   some or only trusted proxies, or signed in. *)
Written == {<<>>, <<"other">>, <<"other", "unknown", "p1">>}
Ways    == {<<>>, <<"p1">>, <<"p2", "p1">>, <<"edge", "p1">>, <<"p1", "edge">>}

Visitors == [user : {""}, client : {"client"}, written : Written, hops : Ways]
       \cup [user : {"ann"}, client : {"client"}, written : {<<"other">>}, hops : {<<"p1">>}]

Anyone == {[user |-> "", client |-> "client", written |-> <<>>, hops |-> <<>>]}
Calls  == {Call(TCPPath, Db @@ t) : t \in Timed}
=============================================================================
