------------------------------ MODULE Catalogue ------------------------------
(***************************************************************************)
(* What a tenant edits and its calls then run: the versions of an agent,    *)
(* the knowledge item a version may cite, the phone number that leads to    *)
(* the agent, and an inbound call that reads first the number's route, then  *)
(* the agent it names and its version.                                      *)
(*                                                                          *)
(* The services read a row without a lock, decide, and write at commit:     *)
(* `edit` holds the write in between.  What still stands at commit is what  *)
(* the triggers and constraints of the schema say about it.                 *)
(***************************************************************************)
EXTENDS Naturals

CONSTANTS
  Editors,    \* API requests under way
  MaxDrafts,  \* bound: versions of the agent
  Contents    \* texts of the knowledge item

ASSUME CatalogueAssumption == MaxDrafts \in Nat \ {0} /\ Contents # {}

VARIABLES
  version,   \* [1..MaxDrafts -> AgentVersion]
  agent,     \* draft_version_id and published_version_id, 0 when NULL
  item,      \* the KnowledgeItem
  routed,    \* the number's inbound_call_routes row is enabled and names the agent
  active,    \* the agent's status is "active"
  edit,      \* [Editors -> what it is about to write]
  call,      \* the inbound call: what _handle_offer found, and the version it runs
  reopening  \* history: versions archived while a publication of them was pending

catalogueVars == <<version, agent, item, routed, active, edit, call, reopening>>

VersionNumbers == 1..MaxDrafts

\* `publications` counts the writes of published_at and published_by; `cites` stands for
\* config["knowledge"].
AgentVersion ==
  [status : {"absent", "draft", "published", "archived"},
   publications : Nat, cites : BOOLEAN]

Item == [status : {"draft", "active", "archived"}, content : Contents]

Edits ==
  [op : {"none"}]
    \cup [op : {"draft"}, v : VersionNumbers \cup {0}, cites : BOOLEAN]
    \cup [op : {"publish"}, v : VersionNumbers, clears : BOOLEAN]
    \cup [op : {"archive"}, v : VersionNumbers]
    \cup [op : {"item"}, becomes : Item]
NoEdit == [op |-> "none"]

CatalogueTypeOK ==
  /\ version \in [VersionNumbers -> AgentVersion]
  /\ agent \in [draft : VersionNumbers \cup {0}, published : VersionNumbers \cup {0}]
  /\ item \in Item
  /\ routed \in BOOLEAN /\ active \in BOOLEAN
  /\ edit \in [Editors -> Edits]
  /\ call \in [at : {"none", "routed", "created"},
               version : VersionNumbers \cup {0}]
  /\ reopening \subseteq VersionNumbers

CatalogueInit ==
  /\ version = [v \in VersionNumbers |->
                   [status |-> "absent", publications |-> 0, cites |-> FALSE]]
  /\ agent = [draft |-> 0, published |-> 0]
  /\ item = [status |-> "draft", content |-> CHOOSE c \in Contents : TRUE]
  /\ routed = FALSE /\ active = TRUE
  /\ edit = [e \in Editors |-> NoEdit]
  /\ call = [at |-> "none", version |-> 0]
  /\ reopening = {}

InDraft == {v \in VersionNumbers : version[v].status # "absent"}
NextNumber == CHOOSE n \in 1..(MaxDrafts + 1) : n \notin InDraft /\ 1..(n - 1) = InDraft

rowVars == <<version, agent, item, routed, active>>

Begins(e, what) ==
  /\ edit[e] = NoEdit
  /\ edit' = [edit EXCEPT ![e] = what]
  /\ UNCHANGED <<rowVars, call, reopening>>

Ends(e) == edit' = [edit EXCEPT ![e] = NoEdit]

-----------------------------------------------------------------------------
(* agents/service.py                                                       *)

\* resolve_active_item_ids.
IsActive == item.status = "active"

\* create_draft_version: a transaction of its own checks the items it cites.
CheckConfig(e) ==
  \E cites \in BOOLEAN :
    /\ cites => IsActive
    /\ Begins(e, [op |-> "draft", v |-> 0, cites |-> cites])

NumberDraft(e) ==
  /\ edit[e].op = "draft" /\ edit[e].v = 0 /\ NextNumber <= MaxDrafts
  /\ edit' = [edit EXCEPT ![e].v = NextNumber]
  /\ UNCHANGED <<rowVars, call, reopening>>

\* uq_agent_versions_agent_version_number: the second insert of a number raises.
InsertDraft(e) ==
  LET v == edit[e].v IN
  /\ edit[e].op = "draft" /\ v # 0
  /\ IF version[v].status = "absent"
       THEN /\ version' = [version EXCEPT ![v].status = "draft", ![v].cites = edit[e].cites]
            /\ agent' = [agent EXCEPT !.draft = v]
       ELSE UNCHANGED <<version, agent>>
  /\ Ends(e)
  /\ UNCHANGED <<item, routed, active, call, reopening>>

PublishVersion(e, v) ==
  /\ version[v].status = "draft"
  /\ Begins(e, [op |-> "publish", v |-> v, clears |-> agent.draft = v])

\* The trigger agent_versions_immutable.
MayBecome(v, status) == version[v].status = "published" => status = "archived"

\* A refused update rolls the whole publication back.
CommitPublication(e) ==
  LET v == edit[e].v IN
  /\ edit[e].op = "publish"
  /\ IF MayBecome(v, "published")
       THEN /\ version' = [version EXCEPT ![v].status = "published", ![v].publications = @ + 1]
            /\ agent' = [agent EXCEPT !.published = v,
                                      !.draft = IF edit[e].clears THEN 0 ELSE @]
       ELSE UNCHANGED <<version, agent>>
  /\ Ends(e)
  /\ UNCHANGED <<item, routed, active, call, reopening>>

ArchiveVersion(e, v) ==
  /\ version[v].status = "published"
  /\ Begins(e, [op |-> "archive", v |-> v])

\* published_version_id keeps pointing at an archived version.
CommitArchive(e) ==
  LET v == edit[e].v IN
  /\ edit[e].op = "archive"
  /\ version' = [version EXCEPT ![v].status = "archived"]
  /\ reopening' = IF \E d \in Editors : edit[d].op = "publish" /\ edit[d].v = v
                    THEN reopening \cup {v} ELSE reopening
  /\ Ends(e)
  /\ UNCHANGED <<agent, item, routed, active, call>>

-----------------------------------------------------------------------------
(* knowledge/service.py                                                    *)

UpdateItem(e) ==
  /\ item.status = "draft"
  /\ \E c \in Contents \ {item.content} :
       Begins(e, [op |-> "item", becomes |-> [item EXCEPT !.content = c]])

\* activate_item and deactivate_item.
MoveItem(e) ==
  \E next \in {"active", "archived"} :
    /\ item.status = IF next = "active" THEN "draft" ELSE "active"
    /\ Begins(e, [op |-> "item", becomes |-> [item EXCEPT !.status = next]])

\* Mutation: no trigger knowledge_items_content_immutable.
AnyWrite(new) == TRUE
ItemMayBecome(new) ==
  item.status # "draft" =>
    /\ new.content = item.content
    /\ new.status = item.status \/ (item.status = "active" /\ new.status = "archived")

\* Only the columns a request changed are written: those of a status change are not the
\* content, and the other way round.
Written(was, becomes) ==
  IF becomes.status = "draft" THEN [was EXCEPT !.content = becomes.content]
                              ELSE [was EXCEPT !.status = becomes.status]

CommitItem(e) ==
  LET new == Written(item, edit[e].becomes) IN
  /\ edit[e].op = "item"
  /\ item' = IF ItemMayBecome(new) THEN new ELSE item
  /\ Ends(e)
  /\ UNCHANGED <<version, agent, routed, active, call, reopening>>

-----------------------------------------------------------------------------
(* phone_numbers/service.py, and the call that comes in                    *)

\* The trigger phone_numbers_sync_inbound_route copies the number into the table a call reads.
SyncInboundRoute(enabled) == routed' = enabled

\* update_phone_number, as long as the call has not read the route: later changes concern no
\* call of the model.  The columns version_pin_mode and pinned_version_id are left out, as no
\* call reads them at all.
UpdatePhoneNumber ==
  /\ call.at = "none"
  /\ SyncInboundRoute(~ routed)
  /\ UNCHANGED <<version, agent, item, active, edit, call, reopening>>

\* update_agent, as long as the call has not read the agent.
UpdateAgent ==
  /\ call.at # "created"
  /\ active' = ~ active
  /\ UNCHANGED <<version, agent, item, routed, edit, call, reopening>>

OnCall(at, v) ==
  /\ call' = [at |-> at, version |-> v]
  /\ UNCHANGED <<rowVars, edit, reopening>>

\* A call that is not routed is rejected: nothing of it remains.
ResolveInboundRoute == call.at = "none" /\ routed /\ OnCall("routed", 0)

\* Mutation: an agent that was never published answers with its draft.
DraftIfNeeded == IF agent.published = 0 THEN agent.draft ELSE agent.published
SelectAgentVersion == agent.published

\* The agent is read, and the version it names: the version a call runs is written once,
\* with its row.
ResolveVersion ==
  /\ call.at = "routed"
  /\ IF active /\ SelectAgentVersion # 0
       THEN OnCall("created", SelectAgentVersion)
       ELSE OnCall("none", 0)

-----------------------------------------------------------------------------
EditStep(e) ==
  \/ CheckConfig(e) \/ NumberDraft(e) \/ InsertDraft(e)
  \/ \E v \in VersionNumbers : PublishVersion(e, v) \/ ArchiveVersion(e, v)
  \/ CommitPublication(e) \/ CommitArchive(e)
  \/ UpdateItem(e) \/ MoveItem(e) \/ CommitItem(e)

CatalogueNext ==
  \/ \E e \in Editors : EditStep(e)
  \/ UpdatePhoneNumber \/ UpdateAgent
  \/ ResolveInboundRoute \/ ResolveVersion

CatalogueSpec == CatalogueInit /\ [][CatalogueNext]_catalogueVars

-----------------------------------------------------------------------------
(* Properties                                                              *)

\* ADR-0004 and migration 0009: what a call runs has been published and reviewed, and does
\* not change under it.  Its version is at most archived, unless a publication that had
\* read it as a draft is committed after it was archived: the trigger does not protect
\* archived rows.  The item it cites has left its draft and keeps its content.
CallRunsFrozenContent ==
  [][call.at = "created" =>
       LET was == version[call.version]
           is  == version'[call.version] IN
       /\ was.status \in {"published", "archived"}
       /\ is \in {was, [was EXCEPT !.status = "archived"]} \/ call.version \in reopening
       /\ was.cites => item.status # "draft" /\ item'.content = item.content]_catalogueVars
==============================================================================
