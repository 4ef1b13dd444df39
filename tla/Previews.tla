------------------------------ MODULE Previews ------------------------------
(***************************************************************************)
(* The previews of one app: what handlePush makes of the pushes and the    *)
(* deletions of branches that a Git provider reports, and the switch that  *)
(* turns previews off.  A build takes what the branch has when it is done. *)
(***************************************************************************)
EXTENDS Naturals, Sequences, FiniteSetsExt, SequencesExt

CONSTANTS
  Branch,       \* branches beside the app's own
  Hook,         \* requests that are served at a time
  MaxPreviews,  \* MAX_PREVIEWS
  MaxRows,      \* bound: rows of previews ever inserted
  MaxPushes,    \* bound: pushes and deletions of branches
  MaxSwitches,  \* bound: times the switch is moved
  MaxUnbuilt,   \* bound: jobs that fail
  Hasty         \* branches are changed while their preview is being worked on, and
                \* the switch is moved while previews are being deleted

ASSUME PreviewsBounds ==
  /\ {MaxPreviews, MaxRows, MaxPushes, MaxSwitches, MaxUnbuilt} \subseteq Nat
  /\ Hasty \in BOOLEAN

VARIABLES
  tip,       \* the newest commit of each branch, or NoCommit when there is no branch
  posts,     \* what the provider has reported and nobody has looked at yet
  hook,      \* what each request has decided
  enabled,   \* config.previews
  preview,   \* the rows: status and branch
  serves,    \* the commit the node serves for each preview
  queued,      \* the jobs of each preview, in order
  results,  \* jobs of each preview that are not folded in yet
  pushes, switches, unbuilt

preVars == <<tip, posts, hook, enabled, preview, serves, queued, results, pushes, switches, unbuilt>>
preNode == <<serves, queued, results, unbuilt>>
preGit  == <<tip, posts, pushes>>

Preview  == 1 .. MaxRows
NoCommit == 0
NoRequest == [do |-> "nothing"]

PreviewsTypeOK ==
  /\ tip \in [Branch -> 0 .. MaxPushes]
  /\ \A p \in Preview : preview[p].status \in {"none", "creating", "running", "error", "deleting", "deleted"}
  /\ serves \in [Preview -> 0 .. MaxPushes]
  /\ enabled \in BOOLEAN

PreviewsInit ==
  /\ tip = [b \in Branch |-> NoCommit]
  /\ posts = <<>>
  /\ hook = [h \in Hook |-> NoRequest]
  /\ enabled = TRUE
  /\ preview = [p \in Preview |-> [status |-> "none"]]
  /\ serves = [p \in Preview |-> NoCommit]
  /\ queued = [p \in Preview |-> <<>>]
  /\ results = [p \in Preview |-> <<>>]
  /\ pushes = 0 /\ switches = 0 /\ unbuilt = 0

\* previewsOf.
Previews == {p \in Preview : preview[p].status \notin {"none", "deleted"}}
PreviewsOf(b) == {p \in Previews : preview[p].branch = b}

Reported(b) == \E i \in DOMAIN posts : posts[i].branch = b
Busy(p) == queued[p] # <<>> \/ results[p] # <<>> \/ \E h \in Hook : hook[h] # NoRequest
Leaving(p) == "delete" \in Range(queued[p]) \/ \E o \in Range(results[p]) : o.do = "delete"
Calm == posts = <<>> /\ \A p \in Preview : ~Busy(p)

-----------------------------------------------------------------------------
(* The repository.                                                         *)

\* A push, or the deletion of a branch, and the webhook that reports it.
ChangeBranch(b) ==
  /\ pushes < MaxPushes
  /\ Hasty \/ (~Reported(b) /\ \A p \in PreviewsOf(b) : ~Busy(p))
  /\ pushes' = pushes + 1
  /\ \E gone \in BOOLEAN :
       /\ gone => tip[b] # NoCommit
       /\ tip' = [tip EXCEPT ![b] = IF gone THEN NoCommit ELSE pushes']
       /\ posts' = Append(posts, [branch |-> b, deleted |-> gone])
  /\ UNCHANGED <<hook, enabled, preview, preNode, switches>>

-----------------------------------------------------------------------------
(* The control plane.                                                      *)

\* handlePush, up to what it decides.
Decision(b, deleted) ==
  IF ~enabled THEN NoRequest
  ELSE IF deleted
       THEN IF PreviewsOf(b) = {} THEN NoRequest ELSE [do |-> "remove", what |-> {Min(PreviewsOf(b))}]
  ELSE IF PreviewsOf(b) # {}
       THEN LET p == Min(PreviewsOf(b))
            IN IF preview[p].status \in {"running", "error"} THEN [do |-> "deploy", preview |-> p] ELSE NoRequest
  ELSE IF Cardinality(Previews) < MaxPreviews THEN [do |-> "create", branch |-> b] ELSE NoRequest

HandlePush(h) ==
  /\ hook[h] = NoRequest
  /\ posts # <<>>
  /\ posts' = Tail(posts)
  /\ hook' = [hook EXCEPT ![h] = Decision(Head(posts).branch, Head(posts).deleted)]
  /\ UNCHANGED <<tip, enabled, preview, preNode, pushes, switches>>

\* The row and the job of a new preview.
NewPreview == Cardinality({p \in Preview : preview[p].status # "none"}) + 1
CreatePreview(h) ==
  /\ hook[h].do = "create"
  /\ NewPreview \in Preview
  /\ preview' = [preview EXCEPT ![NewPreview] = [status |-> "creating", branch |-> hook[h].branch]]
  /\ queued' = [queued EXCEPT ![NewPreview] = <<"create">>]
  /\ hook' = [hook EXCEPT ![h] = NoRequest]
  /\ UNCHANGED <<preGit, enabled, serves, results, switches, unbuilt>>

\* deployWorkload.
DeployPreview(h) ==
  /\ hook[h].do = "deploy"
  /\ LET p == hook[h].preview
     IN queued' = IF preview[p].status = "deleted" THEN queued ELSE [queued EXCEPT ![p] = Append(@, "deploy")]
  /\ hook' = [hook EXCEPT ![h] = NoRequest]
  /\ UNCHANGED <<preGit, enabled, preview, serves, results, switches, unbuilt>>

\* deleteWorkload, one after the other; one that is deleted already throws.
RemovePreview(h) ==
  /\ hook[h].do = "remove"
  /\ LET p == Min(hook[h].what)
         rest == hook[h].what \ {p}
         there == preview[p].status # "deleted"
     IN /\ preview' = IF there THEN [preview EXCEPT ![p].status = "deleting"] ELSE preview
        /\ queued' = IF there THEN [queued EXCEPT ![p] = Append(@, "delete")] ELSE queued
        /\ hook' = [hook EXCEPT ![h] = IF there /\ rest # {} THEN [hook[h] EXCEPT !.what = rest] ELSE NoRequest]
  /\ UNCHANGED <<preGit, enabled, serves, results, switches, unbuilt>>

\* Mutant: the previews that exist when the switch is turned off stay.
SwitchedOffOnly == {}

\* setPreviews: switched off, those that exist go.
SwitchedOff == Previews
SetPreviews(h) ==
  /\ hook[h] = NoRequest
  /\ switches < MaxSwitches
  /\ Hasty \/ \A p \in Preview : ~Leaving(p)
  /\ switches' = switches + 1
  /\ enabled' = ~enabled
  /\ hook' = [hook EXCEPT ![h] = IF enabled /\ SwitchedOff # {} THEN [do |-> "remove", what |-> SwitchedOff] ELSE NoRequest]
  /\ UNCHANGED <<preGit, preview, preNode>>

\* applyOutcome, for the jobs of previews.
PreviewStatus(was, do, ok) ==
  CASE do = "create" -> IF ok THEN "running" ELSE "error"
    [] do = "deploy" -> IF ok THEN "running" ELSE was
    [] do = "delete" -> IF ok THEN "deleted" ELSE "error"

FoldPreview(p) ==
  /\ results[p] # <<>>
  /\ LET o == Head(results[p])
     IN preview' = [preview EXCEPT ![p].status = PreviewStatus(@, o.do, o.ok)]
  /\ results' = [results EXCEPT ![p] = Tail(@)]
  /\ UNCHANGED <<preGit, hook, enabled, serves, queued, switches, unbuilt>>

-----------------------------------------------------------------------------
(* The node: create and deploy clone the branch and build what it has.     *)

RunPreview(p) ==
  /\ queued[p] # <<>>
  /\ results[p] = <<>>
  /\ LET do  == Head(queued[p])
         new == IF do = "delete" THEN NoCommit ELSE tip[preview[p].branch]
     IN \E ok \in BOOLEAN :
          /\ ok => do = "delete" \/ new # NoCommit
          /\ unbuilt' = unbuilt + (IF ok \/ (do # "delete" /\ new = NoCommit) THEN 0 ELSE 1)
          /\ unbuilt' <= MaxUnbuilt
          /\ serves' = IF ok THEN [serves EXCEPT ![p] = new] ELSE serves
          /\ results' = [results EXCEPT ![p] = <<[do |-> do, ok |-> ok]>>]
  /\ queued' = [queued EXCEPT ![p] = Tail(@)]
  /\ UNCHANGED <<preGit, hook, enabled, preview, switches>>

PreviewsNext ==
  \/ \E b \in Branch : ChangeBranch(b)
  \/ \E h \in Hook : HandlePush(h) \/ CreatePreview(h) \/ DeployPreview(h) \/ RemovePreview(h) \/ SetPreviews(h)
  \/ \E p \in Preview : FoldPreview(p) \/ RunPreview(p)

PreviewsSpec == PreviewsInit /\ [][PreviewsNext]_preVars

-----------------------------------------------------------------------------
(* Properties.                                                             *)

\* "any other branch gets (or refreshes) a preview": when there is nothing left
\* to do, a preview shows the newest commit of its branch, unless a job failed.
PreviewsAreFresh ==
  Calm /\ unbuilt = 0 => \A p \in Previews : preview[p].status = "running" => serves[p] = tip[preview[p].branch]

\* "and loses it when it is deleted", "nothing keeps running unseen": a preview
\* that is gone from the panel, or switched off, has left the node.
NothingUnseen ==
  /\ Calm /\ unbuilt = 0 /\ ~enabled => Previews = {}
  /\ \A p \in Preview : preview[p].status = "deleted" => serves[p] = NoCommit

\* One preview for a branch, and no more of them than the app may have.
PreviewsBounded ==
  /\ \A b \in Branch : Cardinality(PreviewsOf(b)) <= 1
  /\ Cardinality(Previews) <= MaxPreviews

PreviewsRight == PreviewsAreFresh /\ NothingUnseen /\ PreviewsBounded
=============================================================================
