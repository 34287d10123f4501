---------------------------- MODULE MCHttpServer ----------------------------
(***************************************************************************)
(* An instance of HttpServer: a few requests of one remote address, and    *)
(* streams of addresses that share a connection key, in four loads:        *)
(* requests that go no further than the limiter while time passes, two     *)
(* requests with a stream, more streams than a key may hold, and a request *)
(* that the middleware may refuse with a stream.                           *)
(***************************************************************************)
EXTENDS HttpServer

CONSTANTS q1, q2, q3, q4, q5, q6, q7, s1, s2, s3

MCRequest == {q1, q2, q3, q4, q5, q6, q7}
MCClient == {s1, s2, s3}

Ok(method) == [addr |-> "10.0.0.1", origin |-> TRUE, token |-> "valid", role |-> "worker",
               json |-> TRUE, oversize |-> FALSE, method |-> method, id |-> "n1",
               criteria |-> [threshold |-> "any", scope |-> {"a"}, anyPath |-> TRUE, glob |-> {}]]

MCPost ==
  [q \in MCRequest |->
     CASE q = q1 -> {Ok("subscribe"), Ok("notification")}
       [] q = q2 -> {Ok("unsubscribe"), Ok("read")}
       [] q = q3 -> {Ok("call"), [Ok("call") EXCEPT !.origin = FALSE],
                     [Ok("call") EXCEPT !.token = "invalid"],
                     [Ok("call") EXCEPT !.role = "viewer"],
                     [Ok("call") EXCEPT !.json = FALSE],
                     [Ok("call") EXCEPT !.oversize = TRUE],
                     [Ok("read") EXCEPT !.id = "n2"],
                     [Ok("subscribe") EXCEPT !.criteria.threshold = "unknown"],
                     [Ok("call") EXCEPT !.addr = "127.0.0.1"]}
       [] OTHER -> {[Ok("call") EXCEPT !.token = "none"]}]

Stream(addr, id) == [addr |-> addr, origin |-> TRUE, token |-> "valid", role |-> "worker", id |-> id]
MCGet ==
  [c \in MCClient |->
     CASE c = s1 -> {Stream("fe80::1", ""), Stream("fe80::1", "n1")}
       [] c = s2 -> {Stream("fe80::2", "unknown")}
       [] c = s3 -> {Stream("fe80::2", "n2"), Stream("10.0.0.1", ""),
                     [Stream("fe80::2", "") EXCEPT !.token = "none"]}]

MCLoad ==
  {[requests |-> {q4, q5, q6, q7}, clients |-> {}, clock |-> 0, jobEvents |-> 1],
   [requests |-> {q1, q2}, clients |-> {s1}, clock |-> 4, jobEvents |-> 0],
   [requests |-> {}, clients |-> {s1, s2, s3}, clock |-> 4, jobEvents |-> 0],
   [requests |-> {q3}, clients |-> {s3}, clock |-> 3, jobEvents |-> 0]}

MCJobRecord ==
  {[topic |-> "notifications/job-state", state |-> "running", at |-> 0],
   [topic |-> "ast/semantic-spike", kind |-> "signature_change", workspaces |-> {"a"},
    paths |-> {"p"}, at |-> 0]}
=============================================================================
