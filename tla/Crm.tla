--------------------------------- MODULE Crm ---------------------------------
(***************************************************************************)
(* Opened leads pushed into the customer's CRM: HubSpot, whose access      *)
(* tokens say when they expire and whose refresh token is replaced at      *)
(* every use; Salesforce, which answers 401 when a token is stale; and a   *)
(* destination of the customer's own, which is sent one signed batch. A    *)
(* push looks up what the CRM has, then updates those and creates the rest.*)
(***************************************************************************)
EXTENDS Naturals, FiniteSets

CONSTANTS
  Leads, Domain(_), NoSite,     \* opened leads; the website a lead is matched on, or NoSite
  Pushes,                     \* requests in flight at once
  MaxTokens, MaxRecords,      \* bounds on the tokens a provider issues, and on the CRM
  MaxMishaps                  \* bound on calls that fail, answers that get lost, and overlaps

VARIABLES
  provider,           \* what a behaviour connects to
  connection,         \* our row: [access, refresh], or NoRow
  remote,             \* the tokens the provider accepts now; the newest it issued
  stale,              \* the access token in our row is past its time
  records,            \* the CRM: a set of [domain, of, n]
  unindexed,          \* domains whose newest record the CRM's search does not show yet
  push,               \* each request and the step it is at
  endpoint,           \* the destination: [url, secret], or NoRow
  told,               \* the secret the customer set up at the other end; 0 for none
  deliveries,         \* batches the destination took in, and those reported as pushed
  miscounted,         \* an answer counted a lead as pushed that the CRM does not hold
  refused,            \* a lookup was refused for its stale token
  blurred,            \* two requests overlapped, or a call of one was lost
  mishaps

vars == <<provider, connection, remote, stale, records, unindexed, push, endpoint, told, deliveries, miscounted, refused, blurred, mishaps>>

NoRow == [access |-> 0, refresh |-> 0]
Idle == [at |-> "idle"]
PushAt(r, step) == push[r].at = step
Move(r, fields) ==
  push' = [push EXCEPT ![r] = [f \in DOMAIN fields \cup DOMAIN push[r] |-> IF f \in DOMAIN fields THEN fields[f] ELSE push[r][f]]]
End(r) == push' = [push EXCEPT ![r] = Idle]
Mishap == mishaps < MaxMishaps /\ mishaps' = mishaps + 1 /\ blurred' = TRUE
Fine == UNCHANGED <<blurred, mishaps>>
InFlight == { r \in Pushes : ~PushAt(r, "idle") }
Sales == provider = "salesforce"
Held == { rec.domain : rec \in records }
Copies(d) == Cardinality({ rec \in records : rec.domain = d })

Init ==
  /\ provider \in {"hubspot", "salesforce", "webhook"}
  /\ connection = NoRow /\ remote = [access |-> 0, refresh |-> 0, issued |-> 0] /\ stale = FALSE
  /\ records = {} /\ unindexed = {} /\ push = [r \in Pushes |-> Idle]
  /\ endpoint = [url |-> FALSE, secret |-> 0] /\ told = 0 /\ deliveries = [taken |-> 0, counted |-> 0]
  /\ miscounted = FALSE /\ refused = FALSE /\ blurred = FALSE /\ mishaps = 0

----------------------------------------------------------------------------
(* The connection. *)

Issue == remote' = [access |-> remote.issued + 1,
                    refresh |-> IF Sales /\ remote.refresh # 0 THEN remote.refresh ELSE remote.issued + 1,
                    issued |-> remote.issued + 1]

\* The customer comes back from the provider with a code, which is exchanged and stored.
saveConnection ==
  /\ provider # "webhook" /\ remote.issued < MaxTokens
  /\ remote' = [access |-> remote.issued + 1, refresh |-> remote.issued + 1, issued |-> remote.issued + 1]
  /\ connection' = [access |-> remote'.access, refresh |-> remote'.refresh] /\ stale' = FALSE
  /\ blurred' = (blurred \/ InFlight # {})
  /\ UNCHANGED <<provider, records, unindexed, push, endpoint, told, deliveries, miscounted, refused, mishaps>>

\* A private app's token: checked against HubSpot, then stored. It has no time and no refresh.
saveToken ==
  /\ provider = "hubspot" /\ connection = NoRow /\ remote.issued < MaxTokens
  /\ remote' = [access |-> remote.issued + 1, refresh |-> 0, issued |-> remote.issued + 1]
  /\ connection' = [access |-> remote'.access, refresh |-> 0] /\ stale' = FALSE
  /\ blurred' = (blurred \/ InFlight # {})
  /\ UNCHANGED <<provider, records, unindexed, push, endpoint, told, deliveries, miscounted, refused, mishaps>>

deleteConnection ==
  /\ connection # NoRow
  /\ connection' = NoRow /\ stale' = FALSE
  /\ blurred' = (blurred \/ InFlight # {})
  /\ UNCHANGED <<provider, remote, records, unindexed, push, endpoint, told, deliveries, miscounted, refused, mishaps>>

\* The provider stops taking the access token.
Expire ==
  /\ remote.access # 0
  /\ remote' = [remote EXCEPT !.access = 0]
  /\ stale' = (connection.refresh # 0)
  /\ UNCHANGED <<provider, connection, records, unindexed, push, endpoint, told, deliveries, miscounted, refused, blurred, mishaps>>

----------------------------------------------------------------------------
(* A push. *)

\* Repeats are collapsed on what they are matched on. Without a website there is nothing to
\* match: HubSpot skips such a lead, Salesforce is sent it as it is.
Usable(leads) ==
  LET sites == { Domain(l) : l \in leads } \ {NoSite}
      bare == { l \in leads : Domain(l) = NoSite }
  IN { CHOOSE l \in leads : Domain(l) = d : d \in sites } \cup (IF Sales THEN bare ELSE {})

\* Whether the token is past its time is known for HubSpot only.
StartPush(r, leads) ==
  /\ provider # "webhook" /\ PushAt(r, "idle") /\ leads # {}
  /\ connection # NoRow
  /\ push' = [push EXCEPT ![r] = [at |-> IF stale /\ ~Sales THEN "refresh" ELSE "lookup", token |-> connection.access,
                                  refresh |-> connection.refresh, leads |-> Usable(leads), retried |-> FALSE]]
  /\ blurred' = (blurred \/ InFlight # {} \/ unindexed # {})
  /\ UNCHANGED <<provider, connection, remote, stale, records, unindexed, endpoint, told, deliveries, miscounted, refused, mishaps>>

\* The provider gives new tokens for the refresh token it issued last.
Refresh(r) ==
  /\ PushAt(r, "refresh")
  /\ \/ /\ push[r].refresh # 0 /\ push[r].refresh = remote.refresh /\ remote.issued < MaxTokens
        /\ Issue /\ Fine
        /\ Move(r, [at |-> "save", token |-> remote'.access, fresh |-> remote'.refresh])
     \/ (push[r].refresh = 0 \/ push[r].refresh # remote.refresh) /\ End(r) /\ Fine /\ UNCHANGED remote
     \/ Mishap /\ End(r) /\ UNCHANGED remote
  /\ UNCHANGED <<provider, connection, stale, records, unindexed, endpoint, told, deliveries, miscounted, refused>>

\* Mutant: the refresh token the push began with is kept.
KeptToken(r) == push[r].refresh
FreshToken(r) == push[r].fresh
\* Nothing looks at whether the new tokens were stored, nor at whether the row is still there.
SaveFresh(r) ==
  /\ PushAt(r, "save")
  /\ \/ connection' = [access |-> push[r].token, refresh |-> FreshToken(r)] /\ stale' = FALSE /\ Fine
     \/ Mishap /\ UNCHANGED <<connection, stale>>
  /\ Move(r, [at |-> IF push[r].retried THEN "write" ELSE "lookup"])
  /\ UNCHANGED <<provider, remote, records, unindexed, endpoint, told, deliveries, miscounted, refused>>

\* Mutant: what is found is not told apart from what is missing.
FoundNothing(r) == {}
\* What the CRM has, of what has a website; a search that fails finds nothing.
existingByDomain(r) == { l \in push[r].leads : Domain(l) \in Held \ unindexed }
Lookup(r) ==
  /\ PushAt(r, "lookup")
  /\ \/ push[r].token = remote.access /\ Fine /\ Move(r, [at |-> "write", found |-> existingByDomain(r)])
     \/ push[r].token # remote.access /\ Fine /\ Move(r, [at |-> "write", found |-> {}])
     \/ Mishap /\ Move(r, [at |-> "write", found |-> {}])
  /\ refused' = (refused \/ push[r].token # remote.access)
  /\ UNCHANGED <<provider, connection, remote, stale, records, unindexed, endpoint, told, deliveries, miscounted>>

\* Salesforce answers for each record; HubSpot takes a batch or none of it.
Counted(batch, taken) == Cardinality(taken)
Batches(batch) == IF Sales THEN SUBSET batch ELSE {batch}

\* The updates change no count. The creations follow, all of those that were not found.
Write(r) ==
  /\ PushAt(r, "write")
  /\ IF push[r].token = remote.access
     THEN LET creates == push[r].leads \ push[r].found IN
          /\ Cardinality(records) + Cardinality(creates) <= MaxRecords
          /\ \E taken \in Batches(creates) :
               /\ records' = records \cup { [domain |-> Domain(l), of |-> l, n |-> Copies(Domain(l)) + 1] : l \in taken }
               /\ unindexed' = IF Sales THEN unindexed ELSE unindexed \cup { Domain(l) : l \in taken }
               /\ miscounted' = (miscounted \/ Counted(creates, taken) # Cardinality(taken))
          /\ End(r)
     ELSE /\ IF Sales /\ ~push[r].retried THEN Move(r, [at |-> "refresh", retried |-> TRUE]) ELSE End(r)
          /\ UNCHANGED <<records, unindexed, miscounted>>
  /\ UNCHANGED <<provider, connection, remote, stale, endpoint, told, deliveries, refused, blurred, mishaps>>

\* The CRM took the batch, and its answer is lost.
AnswerLost(r) ==
  /\ PushAt(r, "write") /\ push[r].token = remote.access /\ Mishap
  /\ Cardinality(records) + Cardinality(push[r].leads) <= MaxRecords
  /\ records' = records \cup { [domain |-> Domain(l), of |-> l, n |-> Copies(Domain(l)) + 1] : l \in push[r].leads \ push[r].found }
  /\ End(r)
  /\ UNCHANGED <<provider, connection, remote, stale, unindexed, endpoint, told, deliveries, miscounted, refused>>

\* The CRM's search catches up; how long that takes is not ours to say.
Index ==
  /\ unindexed # {} /\ InFlight = {}
  /\ unindexed' = {}
  /\ UNCHANGED <<provider, connection, remote, stale, records, push, endpoint, told, deliveries, miscounted, refused, blurred, mishaps>>

----------------------------------------------------------------------------
(* The destination. *)

\* The secret outlives a change of the address.
secretOf(r) == IF push[r].secret = 0 THEN remote.issued + 1 ELSE push[r].secret

ReadEndpoint(r) ==
  /\ provider = "webhook" /\ PushAt(r, "idle")
  /\ push' = [push EXCEPT ![r] = [at |-> "endpoint", secret |-> endpoint.secret]]
  /\ blurred' = (blurred \/ InFlight # {})
  /\ UNCHANGED <<provider, connection, remote, stale, records, unindexed, endpoint, told, deliveries, miscounted, refused, mishaps>>

\* The customer sets the secret up at the other end the first time it is shown to them.
saveEndpoint(r) ==
  /\ PushAt(r, "endpoint") /\ remote.issued < MaxTokens
  /\ endpoint' = [url |-> TRUE, secret |-> secretOf(r)]
  /\ remote' = [remote EXCEPT !.issued = @ + 1]
  /\ told' = IF told = 0 THEN endpoint'.secret ELSE told
  /\ End(r)
  /\ UNCHANGED <<provider, connection, stale, records, unindexed, deliveries, miscounted, refused, blurred, mishaps>>

removeEndpoint ==
  /\ endpoint.url /\ endpoint' = [url |-> FALSE, secret |-> 0] /\ told' = 0
  /\ blurred' = (blurred \/ InFlight # {})
  /\ UNCHANGED <<provider, connection, remote, stale, records, unindexed, push, deliveries, miscounted, refused, mishaps>>

\* A batch that is not answered in time is reported as not pushed, whether it arrived or not.
Deliver ==
  /\ endpoint.url /\ deliveries.taken < MaxRecords
  /\ \/ deliveries' = [taken |-> deliveries.taken + 1, counted |-> deliveries.counted + 1] /\ Fine
     \/ deliveries' \in {deliveries, [deliveries EXCEPT !.taken = @ + 1]} /\ Mishap
  /\ UNCHANGED <<provider, connection, remote, stale, records, unindexed, push, endpoint, told, miscounted, refused>>

Next ==
  \/ saveConnection \/ saveToken \/ deleteConnection \/ Expire \/ Index \/ removeEndpoint \/ Deliver
  \/ \E r \in Pushes, leads \in SUBSET Leads : StartPush(r, leads)
  \/ \E r \in Pushes : Refresh(r) \/ SaveFresh(r) \/ Lookup(r) \/ Write(r) \/ AnswerLost(r) \/ ReadEndpoint(r) \/ saveEndpoint(r)
Spec == Init /\ [][Next]_vars

----------------------------------------------------------------------------

\* Pushing the same business again updates its record: a website has one record, however
\* often its leads are pushed and whichever lists name it twice, when pushes do not overlap,
\* no call is lost or refused, and the CRM's search had caught up.
OneRecordPerSite ==
  ~blurred /\ ~refused => \A rec \in records : rec.domain # NoSite => Copies(rec.domain) <= 1

\* The connection does not wear out: the refresh token that is stored is the one the
\* provider takes, through any number of refreshes.
StoredTokenWorks ==
  ~blurred /\ connection # NoRow /\ (\A r \in Pushes : ~PushAt(r, "save")) => connection.refresh = remote.refresh

\* The secret the customer set up once verifies every delivery, wherever the destination moves.
SecretKept == ~blurred /\ endpoint.url /\ told # 0 => endpoint.secret = told

\* What is reported as pushed is what the CRM took.
CountedLanded == ~miscounted /\ deliveries.counted <= deliveries.taken

\* The words of the panel: pushing the same business again updates its Lead instead of
\* adding another.
SalesforceUpdates == Sales /\ ~blurred => \A rec \in records : rec.domain # NoSite => Copies(rec.domain) <= 1
=============================================================================
