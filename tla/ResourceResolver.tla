--------------------------- MODULE ResourceResolver ---------------------------
(***************************************************************************)
(* Resolving the Agent Observability project and stream that telemetry is  *)
(* sent to (skills/otel-instrument/scripts/resolve_ao_resources.py): look  *)
(* up, create at most once, look up again.  Several runs work at the same  *)
(* time on one service, whose listings lag behind, whose answers get lost, *)
(* and which may or may not keep names unique.                             *)
(***************************************************************************)
EXTENDS Integers, FiniteSets

CONSTANTS
  Resolvers,   \* runs of the script, all for the same two names
  MaxIds,      \* bound: resources that ever exist
  PageSize,    \* streams on one page of a listing
  MaxPages,    \* pages after which a listing is given up (1000)
  Attempts,    \* lookups after a creation (relookup_attempts)
  MaxMishaps   \* bound: faulty answers

ASSUME ResolverAssumption ==
  /\ MaxIds \in Nat \ {0} /\ PageSize \in Nat \ {0} /\ MaxPages \in Nat \ {0}
  /\ Attempts \in 1 .. 5 /\ MaxMishaps \in Nat

ResourceKinds == {"project", "stream"}
None_ == 0
EndOfList == -1
Ids_  == 1 .. MaxIds

VARIABLES
  service,    \* the resources: [kind, id, wanted, project]; wanted: has the name asked for
  listed,     \* those that listings show by now
  unique,     \* the service refuses a second resource of a name
  api,        \* how it is reached: the SDK, or the local Studio interface
  resolver,   \* the runs of the script
  faulty     \* faulty answers so far
resolveVars == <<service, listed, unique, api, resolver, faulty>>

Resource == [kind: ResourceKinds, id: Ids_, wanted: BOOLEAN, project: {None_} \cup Ids_]

\* _cli_selector: an argument overrides the environment of its resource.
Selected(args, env) == IF args = {} THEN env ELSE args
Selections ==
  {[k \in ResourceKinds |-> Selected(args[k], env[k])] :
     args \in [ResourceKinds -> {{}, {"name"}, {"id"}}], env \in [ResourceKinds -> SUBSET {"name", "id"}]}

NewRun == [pc |-> "start", sel |-> [k \in ResourceKinds |-> None_], reuseOnly |-> FALSE,
           kind |-> "project", token |-> 0, seen |-> {0}, got |-> {}, before |-> {},
           tries |-> 0, created |-> None_, raised |-> FALSE, outcome |-> [k \in ResourceKinds |-> "none"],
           as |-> "none", id |-> [k \in ResourceKinds |-> None_], error |-> "none"]

Scope(r) == IF resolver[r].kind = "project" THEN None_ ELSE resolver[r].id["project"]
InScope(S, r) == {x \in S : x.kind = resolver[r].kind /\ x.project = Scope(r)}
Wanted(S) == {x \in S : x.wanted}
ById(r)   == resolver[r].sel[resolver[r].kind] /= None_

Becomes(r, e) == resolver' = [resolver EXCEPT ![r] = e]
EndedRun(e, pc) == [NewRun EXCEPT !.pc = pc, !.sel = e.sel, !.id = e.id, !.outcome = e.outcome]
Fail(r, code) == Becomes(r, [EndedRun(resolver[r], "failed") EXCEPT !.error = code])

\* A lookup ahead: what a listing shows at its beginning is remembered.
Looking(e, tries, before) ==
  [e EXCEPT !.pc = "lookup", !.token = 0, !.seen = {0}, !.got = {}, !.tries = tries, !.before = before]

\* resolve_resources: each resource is selected by a name or by an ID, here one
\* that exists or one that does not.
Start(r) ==
  /\ resolver[r].pc = "start"
  /\ \E reuse \in BOOLEAN, by \in Selections, j \in {1, 2} :
       LET id(k, n) == IF by[k] = {"id"} THEN n ELSE None_
       IN IF \E k \in ResourceKinds : Cardinality(by[k]) /= 1 THEN Fail(r, "invalid_selectors")
             ELSE Becomes(r, Looking([NewRun EXCEPT !.reuseOnly = reuse,
                                        !.sel = [project |-> id("project", 1), stream |-> id("stream", j)]],
                                     0, Wanted({x \in listed : x.kind = "project"})))
  /\ UNCHANGED <<service, listed, unique, api, faulty>>

\* The resource is found: on to the stream of the project, or done.
Settled_(r, x, how) ==
  LET e == [resolver[r] EXCEPT !.id[x.kind] = x.id, !.outcome[x.kind] = how]
  IN IF x.kind = "stream" THEN Becomes(r, EndedRun(e, "resolved"))
     ELSE Becomes(r, Looking([e EXCEPT !.kind = "stream", !.created = None_, !.raised = FALSE, !.as = "none"], 0,
                             Wanted({y \in listed : y.kind = "stream" /\ y.project = x.id})))

Found(r, x) ==
  IF resolver[r].tries = 0 THEN Settled_(r, x, "reused")
  ELSE IF resolver[r].created \notin {None_, x.id} THEN Fail(r, "create_identity_mismatch")
  ELSE Settled_(r, x, resolver[r].as)

\* A lookup failed; after a creation whose answer was an error, that is what the
\* run reports.
LookupFailed(r, code) ==
  Fail(r, IF resolver[r].tries > 0 /\ resolver[r].raised THEN "create_unresolved" ELSE code)

NotFound(r) ==
  IF resolver[r].tries = 0
  THEN IF ById(r) THEN Fail(r, "id_not_found")
       ELSE IF resolver[r].reuseOnly THEN Fail(r, "name_not_found_reuse_only")
       ELSE Becomes(r, [resolver[r] EXCEPT !.pc = "create", !.token = 0, !.seen = {0}, !.got = {}])
  ELSE IF resolver[r].tries < Attempts THEN Becomes(r, Looking(resolver[r], resolver[r].tries + 1, {}))
  ELSE Fail(r, "create_unresolved")

\* Mutation: only the stream that was picked must belong to the project.
ConcludeLoosely(r, all) ==
  LET hits == Wanted(all) IN
  IF Cardinality(hits) > 1 THEN LookupFailed(r, "ambiguous_name")
  ELSE IF hits = {} THEN NotFound(r)
  ELSE Found(r, CHOOSE x \in hits : TRUE)

\* The end of a lookup by name: nothing listed may belong elsewhere, and only
\* one resource may have the name.
Conclude(r, all) ==
  LET hits == Wanted(all) IN
  IF \E x \in all : x.project /= Scope(r) THEN LookupFailed(r, "wrong_project")
  ELSE IF Cardinality(hits) > 1 THEN LookupFailed(r, "ambiguous_name")
  ELSE IF hits = {} THEN NotFound(r)
  ELSE Found(r, CHOOSE x \in hits : TRUE)

\* lookup by ID: the answer must be the resource asked for, in its project.
Get(r) ==
  /\ resolver[r].pc = "lookup" /\ ById(r)
  /\ LET hits == {x \in InScope(listed, r) : x.id = resolver[r].sel[resolver[r].kind]}
     IN IF hits = {} THEN NotFound(r) ELSE Found(r, CHOOSE x \in hits : TRUE)
  /\ UNCHANGED <<service, listed, unique, api, faulty>>

PageOf(x)   == (x.id - 1) \div PageSize
OnPage(r)   == {x \in InScope(listed, r) : resolver[r].kind = "project" \/ PageOf(x) = resolver[r].token}
MoreAfter(r) == resolver[r].kind = "stream" /\ \E x \in InScope(listed, r) : PageOf(x) > resolver[r].token

\* Mutation: a page that leads back to where the listing has been ends it.
PageStopsOnRepeat(r, items, next) ==
  IF next = EndOfList \/ next \in resolver[r].seen THEN Conclude(r, resolver[r].got \cup items)
  ELSE IF Cardinality(resolver[r].seen) = MaxPages THEN LookupFailed(r, "lookup_failed")
  ELSE Becomes(r, [resolver[r] EXCEPT !.got = @ \cup items, !.token = next, !.seen = @ \cup {next}])

\* What a page does to the listing: it ends it, or names a page not seen yet.
Page(r, items, next) ==
  IF next = EndOfList THEN Conclude(r, resolver[r].got \cup items)
  ELSE IF next \in resolver[r].seen \/ Cardinality(resolver[r].seen) = MaxPages THEN LookupFailed(r, "lookup_failed")
  ELSE Becomes(r, [resolver[r] EXCEPT !.got = @ \cup items, !.token = next, !.seen = @ \cup {next}])

List(r) ==
  /\ resolver[r].pc = "lookup" /\ ~ById(r)
  /\ Page(r, OnPage(r), IF MoreAfter(r) THEN resolver[r].token + 1 ELSE EndOfList)
  /\ UNCHANGED <<service, listed, unique, api, faulty>>

\* The service answers a lookup with an error, a page that leads back, or the
\* streams of another project.
Mishap == faulty < MaxMishaps /\ faulty' = faulty + 1
LookupMishap(r) ==
  /\ resolver[r].pc = "lookup" /\ Mishap
  /\ \/ LookupFailed(r, "lookup_failed")
     \/ ~ById(r) /\ resolver[r].kind = "stream" /\ Page(r, OnPage(r), 0)
     \/ ~ById(r) /\ resolver[r].kind = "stream"
          /\ Page(r, OnPage(r) \cup {x \in listed : x.kind = "stream"}, EndOfList)
  /\ UNCHANGED <<service, listed, unique, api>>

\* The resource that a creation adds; listings show it now or later.
Committed(r) ==
  LET id == Cardinality(service) + 1
      x  == [kind |-> resolver[r].kind, id |-> id, wanted |-> TRUE, project |-> Scope(r)]
  IN /\ id \in Ids_ /\ ~(unique /\ Wanted(InScope(service, r)) /= {})
     /\ service' = service \cup {x}
     /\ \/ listed' = listed \cup {x}
        \/ UNCHANGED listed
Uncommitted == UNCHANGED <<service, listed>>

\* On to the lookup that decides what became of the creation.
Reconcile(r, id, raised, as) ==
  Becomes(r, Looking([resolver[r] EXCEPT !.created = id, !.raised = raised, !.as = as], 1, {}))

Uncertain(r, raised) == Reconcile(r, None_, raised, "reused-after-uncertain-create")

\* The one creation.  An answer without an identity, or that cannot be read, is
\* reconciled with the SDK, which does not say what went wrong, and a failure
\* with the service's own interface.
CreateOne(r) ==
  /\ resolver[r].pc = "create"
  /\ \/ /\ Committed(r) /\ UNCHANGED faulty
        /\ Reconcile(r, Cardinality(service) + 1, FALSE, "created")
     \/ /\ Wanted(InScope(service, r)) /= {} /\ Uncommitted /\ UNCHANGED faulty
        /\ Reconcile(r, None_, TRUE, "reused-after-conflict")
     \/ /\ Mishap /\ (Committed(r) \/ Uncommitted) /\ Uncertain(r, TRUE)
     \/ /\ Mishap /\ (Committed(r) \/ Uncommitted) /\ Fail(r, "create_failed")
     \/ /\ Mishap /\ Committed(r)
        /\ \E raised \in BOOLEAN :
             IF api = "sdk" THEN Uncertain(r, raised) ELSE Fail(r, "create_failed")
  /\ UNCHANGED <<unique, api>>

\* Listings catch up.
Appear ==
  /\ \E x \in service \ listed : listed' = listed \cup {x}
  /\ UNCHANGED <<service, unique, api, resolver, faulty>>

----------------------------------------------------------------------------
Existing ==
  LET p == [kind |-> "project", id |-> 1, wanted |-> TRUE, project |-> None_]
      q == [kind |-> "project", id |-> 1, wanted |-> FALSE, project |-> None_]
      s(i, w) == [kind |-> "stream", id |-> i, wanted |-> w, project |-> 1]
  IN {{}, {q, s(2, TRUE)}, {p}, {p, s(2, FALSE)}, {p, s(2, FALSE), s(3, TRUE)}}

ResolverInit ==
  /\ service \in Existing /\ listed = service /\ unique \in BOOLEAN /\ api \in {"sdk", "studio"}
  /\ resolver = [r \in Resolvers |-> NewRun] /\ faulty = 0

ResolverNext ==
  \/ \E r \in Resolvers : Start(r) \/ Get(r) \/ List(r) \/ LookupMishap(r) \/ CreateOne(r)
  \/ Appear

ResolverSpec == ResolverInit /\ [][ResolverNext]_resolveVars

----------------------------------------------------------------------------
(* Properties *)

\* native_trace_binding: the pair that headers and resource attributes carry.
Binding(r) ==
  {[project |-> p, stream |-> x.id] :
     p \in {resolver[r].id["project"]},
     x \in {s \in service : s.id = resolver[r].id["stream"] /\ s.kind = "stream" /\ s.project = resolver[r].id["project"]}}

\* A resolved pair exists, the stream is a stream of the project, and what was
\* selected by name has the name; what the run says it created it created.
ResolvedIsBound ==
  \A r \in Resolvers : resolver[r].pc = "resolved" =>
    /\ Cardinality(Binding(r)) = 1
    /\ \A k \in ResourceKinds :
         /\ \E x \in service : x.kind = k /\ x.id = resolver[r].id[k] /\ (resolver[r].sel[k] = None_ => x.wanted)
         /\ resolver[r].sel[k] /= None_ => resolver[r].outcome[k] = "reused" /\ resolver[r].id[k] = resolver[r].sel[k]

\* "A failed name lookup never authorizes creation": a run creates only what no
\* listing showed when it began to look (resolve_resources, list).
CreatesOnlyAbsent ==
  \A r \in Resolvers : resolver[r].pc = "create" => resolver[r].before = {}

\* On a service that keeps names unique, runs for the same names end with the
\* same pair, however their creations crossed and whatever got lost, and at most
\* one of them says that it created it.
ResolversAgree ==
  unique =>
    \A r, s \in Resolvers :
      (r /= s /\ resolver[r].pc = "resolved" /\ resolver[s].pc = "resolved" /\ resolver[r].sel = resolver[s].sel) =>
        /\ resolver[r].id = resolver[s].id
        /\ \A k \in ResourceKinds : ~(resolver[r].outcome[k] = "created" /\ resolver[s].outcome[k] = "created")

\* Resolved resources exist and belong together, and concurrent runs agree
\* (resolve_resources, native_trace_binding).
ResolutionIsSound == ResolvedIsBound /\ ResolversAgree
=============================================================================
