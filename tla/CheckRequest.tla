----------------------------- MODULE CheckRequest -----------------------------
(***************************************************************************)
(* A request for a check on its way into the UI.  It is read twice: by the *)
(* audit middleware, which only wants to know the target (internal/auth:   *)
(* audit.go), and by the handler of its route, which decides whether there *)
(* is a check to run (internal/ui: server.go, web.go, checkhandlers.go).   *)
(* The two read methods, bodies and content types in ways of their own.    *)
(*                                                                         *)
(* A request is a record: method, path, contentType ("json", "form" or     *)
(* "other"), query (its fields) and body: kind ("json", "form", or "bad"   *)
(* for what neither parser takes), fields, fits (the JSON types are those  *)
(* of the request) and size.  Beyond maxAuditBodyPeek, which is also       *)
(* MaxRequestBody, a body is "large", and "padded" if it begins with a JSON*)
(* object within the limit (then also if what follows is only not JSON).   *)
(* Fields are texts without blanks around them.                            *)
(***************************************************************************)
EXTENDS Naturals

CONSTANTS
    Ports,       \* the texts that are port numbers in range
    Durations    \* Durations[text]: what ParseDuration makes of a text, in ticks

Get(fields, key) == IF key \in DOMAIN fields THEN fields[key] ELSE ""

TCPPath      == "/api/check/tcp"
PostgresPath == "/api/check/postgres"
IndexPath    == "/"

-----------------------------------------------------------------------------
Fields(f, proto) == [host |-> Get(f, "host"), port |-> Get(f, "port"), proto |-> proto]

Blank == [host |-> "", port |-> "", proto |-> ""]

(* A body the middleware peeks at whole, and can read: JSON if it says so,
   anything else as a form. *)
PeeksJSON(r) == /\ r.method = "POST" /\ r.body.size = "small"
                /\ r.contentType = "json" /\ r.body.kind = "json"
PeeksForm(r) == /\ r.method = "POST" /\ r.body.size = "small"
                /\ r.contentType # "json" /\ r.body.kind = "form"

(* Mutant of CheckFields: the selected check is read from proto alone. *)
CheckFieldsByProto(r) ==
    CASE r.method # "POST" -> Fields(r.query, Get(r.query, "proto"))
      [] PeeksJSON(r)      -> Fields(r.body.fields, "")
      [] PeeksForm(r)      -> Fields(r.body.fields, Get(r.body.fields, "proto"))
      [] OTHER             -> Blank

(* checkFields: the query, or for POST as much of the body as it peeks at. *)
CheckFields(r) ==
    CASE r.method # "POST" -> Fields(r.query, Get(r.query, "proto"))
      [] PeeksJSON(r)      -> Fields(r.body.fields, "")
      [] PeeksForm(r)      ->
            Fields(r.body.fields, IF Get(r.body.fields, "check") = "postgres" THEN "postgres"
                                  ELSE Get(r.body.fields, "proto"))
      [] OTHER             -> Blank

(* auditTarget: the targets of the check events AuditCheck logs. *)
AuditTargets(r) ==
    LET f == CheckFields(r)
    IN  CASE r.path = TCPPath      -> {[f EXCEPT !.proto = "tcp"]}
          [] r.path = PostgresPath -> {[f EXCEPT !.proto = "postgres"]}
          [] r.path = IndexPath /\ (f.host # "" \/ f.port # "") ->
                {[f EXCEPT !.proto = IF @ = "" THEN "tcp" ELSE @]}
          [] OTHER -> {}

-----------------------------------------------------------------------------
(* What a handler makes of a request: an answer, or a check to run. *)
Refuse(code) == [status |-> code]

Check(kind, via, f, timeout) ==
    [status |-> 0, kind |-> kind, via |-> via, host |-> Get(f, "host"), port |-> Get(f, "port"),
     timeout |-> IF timeout = "" THEN 0 ELSE Durations[timeout]]

GoodTimeout(text)  == text = "" \/ text \in DOMAIN Durations
HostAndPort(f)     == Get(f, "host") # "" /\ Get(f, "port") \in Ports
HasCredentials(f)  == Get(f, "username") # "" /\ Get(f, "password") # ""

(* decodeAPIRequest, then Validate; the content type is not looked at. *)
Decodes(r) ==
    /\ r.body.kind = "json" /\ r.body.fits /\ r.body.size # "large"
    /\ GoodTimeout(Get(r.body.fields, "timeout"))

HandleAPI(r, kind) ==
    LET f == r.body.fields
    IN  CASE r.method # "POST" -> Refuse(405)
          [] r.method = "POST" /\ Decodes(r) /\ HostAndPort(f)
                /\ (kind = "postgres" => HasCredentials(f)) ->
                Check(kind, "api", f, Get(f, "timeout"))
          [] OTHER -> Refuse(400)

(* ParseForm: the body is read only as a form, and comes before the query. *)
ReadsBody(r) == r.method \in {"POST", "PUT", "PATCH"} /\ r.contentType = "form"
PostForm(r)  == IF ReadsBody(r) /\ r.body.kind = "form" THEN r.body.fields ELSE <<>>
Form(r)      ==
    LET own == PostForm(r)
    IN  [key \in DOMAIN own \cup DOMAIN r.query |->
            IF key \in DOMAIN own THEN own[key] ELSE r.query[key]]

(* handleIndexTCP: parseTarget, and nothing but tcp. *)
HandleIndexTCP(r) ==
    LET f == Form(r)
    IN  IF HostAndPort(f) /\ GoodTimeout(Get(f, "timeout")) /\ Get(f, "proto") \in {"", "tcp"}
        THEN Check("tcp", "form", f, Get(f, "timeout"))
        ELSE Refuse(400)

(* handleIndexPostgres: the credentials are those of the body. *)
HandleIndexPostgres(r) ==
    LET f == Form(r)
    IN  IF HostAndPort(f) /\ GoodTimeout(Get(f, "timeout")) /\ HasCredentials(PostForm(r))
        THEN Check("postgres", "form", f, Get(f, "timeout"))
        ELSE Refuse(400)

Submitted(r) == {"host", "port"} \cap DOMAIN Form(r) # {}

HandleIndex(r, enabled) ==
    IF ReadsBody(r) /\ r.body.kind = "bad" THEN Refuse(400)
    ELSE IF ~Submitted(r) THEN Refuse(200)
    ELSE IF Get(Form(r), "check") = "postgres" /\ "postgres" \in enabled
         THEN HandleIndexPostgres(r)
         ELSE HandleIndexTCP(r)

(* The mux: a check that is not enabled has no route, and "/" is a page only
   for itself. *)
Handle(r, enabled) ==
    CASE r.path = IndexPath                              -> HandleIndex(r, enabled)
      [] r.path = TCPPath      /\ "tcp" \in enabled      -> HandleAPI(r, "tcp")
      [] r.path = PostgresPath /\ "postgres" \in enabled -> HandleAPI(r, "postgres")
      [] OTHER                                           -> Refuse(404)
=============================================================================
