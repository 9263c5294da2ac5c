------------------------- MODULE ConnectorAdapters -------------------------
(***************************************************************************)
(* What the eleven provider adapters of apps/api/services/connectors do    *)
(* with an answer of their provider, as far as the sync task, the health   *)
(* check and the documents can tell them apart.  An adapter is a record:   *)
(*   validates  its sync calls test_connection first                       *)
(*   rejects    its listing turns a 401 into ConnectorValidationError      *)
(*   listed     the texts come with the listing; otherwise each is         *)
(*              downloaded when the loop reaches it                        *)
(*   fetch      what becomes of a text it cannot get: that ends the sync   *)
(*              with the listing ("none"), the item is counted as failed   *)
(*              and left ("skipped"), or a placeholder (an error text, a   *)
(*              team without channels) is indexed as its text ("indexed")  *)
(*   stamped    its checksum covers the item's modification time too       *)
(*   infra      what a failing embedding model or vector store raises: a   *)
(*              ConnectorSyncError ("syncError") or the exception itself   *)
(*   refresh    its access tokens do not expire ("none"), or are renewed   *)
(*              with a refresh token that stays ("stable") or is replaced  *)
(*              at every use ("rotating")                                  *)
(***************************************************************************)

(* A provider's answer, and what a handler or the task sees of a call. *)
Response == {"ok", "unauthorized", "refused", "unreachable"}
Outcome == {"ok", "invalid", "syncError", "raw"}

GitHub == [validates |-> TRUE, rejects |-> TRUE, listed |-> FALSE, fetch |-> "skipped",
           stamped |-> FALSE, infra |-> "syncError", refresh |-> "none"]
Jira == [validates |-> TRUE, rejects |-> TRUE, listed |-> TRUE, fetch |-> "none",
         stamped |-> TRUE, infra |-> "syncError", refresh |-> "none"]
Confluence == [validates |-> TRUE, rejects |-> TRUE, listed |-> TRUE, fetch |-> "none",
               stamped |-> TRUE, infra |-> "syncError", refresh |-> "none"]
Notion == [validates |-> TRUE, rejects |-> TRUE, listed |-> FALSE, fetch |-> "skipped",
           stamped |-> FALSE, infra |-> "syncError", refresh |-> "none"]
Slack == [validates |-> FALSE, rejects |-> FALSE, listed |-> FALSE, fetch |-> "skipped",
          stamped |-> FALSE, infra |-> "syncError", refresh |-> "none"]
GoogleDrive == [validates |-> FALSE, rejects |-> TRUE, listed |-> FALSE, fetch |-> "skipped",
                stamped |-> TRUE, infra |-> "syncError", refresh |-> "stable"]
GoogleSheets == [validates |-> FALSE, rejects |-> FALSE, listed |-> FALSE, fetch |-> "skipped",
                 stamped |-> FALSE, infra |-> "raw", refresh |-> "stable"]
GoogleCalendar == [validates |-> FALSE, rejects |-> TRUE, listed |-> TRUE, fetch |-> "none",
                   stamped |-> FALSE, infra |-> "raw", refresh |-> "stable"]
Outlook == [validates |-> TRUE, rejects |-> TRUE, listed |-> TRUE, fetch |-> "none",
            stamped |-> FALSE, infra |-> "raw", refresh |-> "rotating"]
OneDrive == [validates |-> FALSE, rejects |-> TRUE, listed |-> FALSE, fetch |-> "indexed",
             stamped |-> TRUE, infra |-> "syncError", refresh |-> "rotating"]
MsTeams == [validates |-> FALSE, rejects |-> TRUE, listed |-> TRUE, fetch |-> "indexed",
            stamped |-> FALSE, infra |-> "syncError", refresh |-> "rotating"]

Adapters == {GitHub, Jira, Confluence, Notion, Slack, GoogleDrive, GoogleSheets,
             GoogleCalendar, Outlook, OneDrive, MsTeams}

(* test_connection: any answer but 200 invalidates the credential, a provider
   that does not answer raises httpx's own error. *)
Probe(response) ==
  CASE response = "ok" -> "ok"
    [] response = "unreachable" -> "raw"
    [] OTHER -> "invalid"

(* The listing at the start of a sync: _fetch_issues, _list_channels and so on. *)
Listing(adapter, response) ==
  CASE response = "ok" -> "ok"
    [] response = "unreachable" -> "raw"
    [] response = "unauthorized" /\ adapter.rejects -> "invalid"
    [] OTHER -> "syncError"

(* Everything a sync asks before its first item: the first failure ends it. *)
Opening(adapter, probe, listing) ==
  IF adapter.validates /\ Probe(probe) # "ok"
    THEN Probe(probe)
    ELSE Listing(adapter, listing)

(* health_check answers in every case; only a 200 counts as a valid token. *)
TokenValid(response) == response = "ok"

(* How a sync may end for the task that called it. *)
SyncOutcomes(adapter) ==
  {Opening(adapter, p, l) : p \in Response, l \in Response}
    \cup {adapter.infra} \cup (IF adapter.listed THEN {} ELSE {"raw"})
=============================================================================
