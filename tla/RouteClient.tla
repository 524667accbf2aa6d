---------------------------- MODULE RouteClient ----------------------------
(***************************************************************************)
(* The demonstration client request_route (src/request_route), which posts *)
(* a request, polls the job of the answer and fetches the route, against   *)
(* the system of RouteJobs.  It is the reader of RouteViews; without it    *)
(* the reader is a visitor who asks for any job.                           *)
(***************************************************************************)
EXTENDS RouteViews

CONSTANT NumRequests    \* the argument num_requests

ASSUME NumRequestsAssumption == NumRequests \in Nat

VARIABLE client

ClientPc == {"away", "post", "poll", "wait", "fetch", "route", "none", "raised"}

\* `trip` is the trip of the route that the client got.
ClientOK ==
    client \in [pc : ClientPc, post : Posts \cup {None},
                job : Tasks \cup {None}, count : 0..NumRequests + 1,
                trip : Trips \cup {None}]

NewClient(pc) == [pc |-> pc, post |-> None, job |-> None, count |-> 0,
                  trip |-> None]

----------------------------------------------------------------------------

\* The client waits for the answer to its POST.  An HTTP error ends it, also
\* the one that a proxy answers for a thread that died.
ReadAnswer ==
    /\ client.pc = "post"
    /\ \E p \in Posts :
        \/ /\ post[p].code = 202
           /\ client' = [client EXCEPT !.pc = "poll", !.post = p,
                                       !.job = post[p].task]
        \/ /\ post[p].code \in {400, 404, 500} \/ post[p].pc = "crashed"
           /\ client' = [client EXCEPT !.pc = "none", !.post = p]
    /\ UNCHANGED viewVars

\* while status_request_count <= num_requests
Poll ==
    /\ client.pc = "poll" /\ client.count <= NumRequests
    /\ JobGet(client.job)
    /\ client' = [client EXCEPT !.pc = "wait", !.count = @ + 1]
    /\ UNCHANGED <<system, admin>>

GiveUp ==
    /\ client.pc = "poll" /\ client.count > NumRequests
    /\ client' = [client EXCEPT !.pc = "none"]
    /\ UNCHANGED viewVars

\* make_request answers None for an error, and None has no method get.
StatusError ==
    /\ client.pc = "wait" /\ reader.pc = "answered" /\ reader.code # 200
    /\ client' = [client EXCEPT !.pc = "raised"]
    /\ UNCHANGED viewVars

ReadStatus ==
    /\ client.pc = "wait" /\ reader.pc = "answered" /\ reader.code = 200
    /\ \/ /\ reader.status = "PENDING"
          /\ client' = [client EXCEPT !.pc = "poll"]
          /\ reader' = NewReader("ready")
       \/ /\ \/ reader.status = "FAILURE"
             \/ reader.status = "SUCCESS" /\ reader.url = None
          /\ client' = [client EXCEPT !.pc = "none"]
          /\ UNCHANGED reader
       \/ /\ reader.status = "SUCCESS" /\ reader.url # None
          /\ client' = [client EXCEPT !.pc = "fetch"]
          /\ UNCHANGED reader
    /\ UNCHANGED <<system, admin>>

Fetch ==
    /\ client.pc = "fetch"
    /\ FollowUrl
    /\ client' = IF Exists(reader.url)
                 THEN [client EXCEPT !.pc = "route",
                                     !.trip = route[reader.url].row.trip]
                 ELSE [client EXCEPT !.pc = "none"]
    /\ UNCHANGED <<system, admin>>

ClientStep == ReadAnswer \/ Poll \/ GiveUp \/ StatusError \/ ReadStatus \/ Fetch

Visit == client.pc = "away" /\ ((\E t \in Tasks : JobGet(t)) \/ FollowUrl)

----------------------------------------------------------------------------
(* Safety *)

\* The route that a client gets is smoothed and its own: for the trip of its
\* POST or one with both ends in tolerance, through reuse, retries, polls and
\* the redirection to the route (request_route.py:150-195).
ClientGetsItsRoute ==
    client.pc = "route" =>
        LET trip == post[client.post].body.trip
        IN  /\ reader.detail = "smoothed"
            /\ client.trip = trip \/ InTolerance(trip, client.trip)

\* A poll breaks the client only when its job is gone, with its route: never
\* for a job that the server still knows (request_route.py:156-163).
ClientRaisesWithoutJob ==
    client.pc = "raised" => jobs[client.job].route = None

=============================================================================
