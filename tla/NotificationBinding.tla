------------------------ MODULE NotificationBinding -------------------------
(***************************************************************************)
(* One HibernateNotification and the plans of its namespace: the provider  *)
(* publishes a binding for each plan it reconciles                         *)
(* (fetchAndPublishNotifications, notificationBindingTracker), and the     *)
(* lifecycle processor keeps the finalizer and, through queued status      *)
(* writes, the list of watched plans (processor/notification/lifecycle.go).*)
(* A label of a plan and the selector are one value each; they match when  *)
(* they are equal.  A resource version is whether the object was written   *)
(* since a plan's binding was stored.                                      *)
(***************************************************************************)
EXTENDS Integers, Sequences, FiniteSets

CONSTANTS NbPlans,     \* names of plans
          NbLabels,    \* labels of plans
          NbMaxEdits,  \* bound: changes by users
          NbMaxFaults  \* bound: patches of a finalizer that fail

VARIABLES nbPlan,     \* label of each plan, "" when there is none
          nbNotif,    \* the notification
          nbQueued,   \* plans with a reconcile queued
          nbBinding,  \* the binding stored for each plan, the provider tracks it
          nbChanged,  \* plans whose stored binding has an older resource version
          nbPending,  \* plans with an update of the binding to handle
          nbDropped,  \* the last binding of plans whose binding was deleted
          nbWrites,   \* queued status writes
          nbEdits, nbFaults

nbVars == <<nbPlan, nbNotif, nbQueued, nbBinding, nbChanged, nbPending, nbDropped,
            nbWrites, nbEdits, nbFaults>>

NoNotif == [up |-> FALSE]
NoBinding == [notif |-> NoNotif]
ExistingPlans == {p \in NbPlans : nbPlan[p] # ""}

-----------------------------------------------------------------------------
(* findPlansForNotification: the plans that match, else all of them. *)
FindPlansForNotification(sel) ==
    LET matched == {p \in ExistingPlans : nbPlan[p] = sel}
    IN IF matched = {} THEN ExistingPlans ELSE matched

UserEdit == nbEdits < NbMaxEdits /\ nbEdits' = nbEdits + 1

\* Every write of the notification has a new resource version.
Write(n) == nbNotif' = n /\ nbChanged' = NbPlans

NewNotification(sel) == [up |-> TRUE, sel |-> sel, deleting |-> FALSE, finalizer |-> FALSE,
                         watched |-> {}, state |-> ""]

CreateNotification(sel) ==
    /\ UserEdit
    /\ nbNotif = NoNotif
    /\ Write(NewNotification(sel))
    /\ nbQueued' = nbQueued \cup FindPlansForNotification(sel)
    /\ UNCHANGED <<nbPlan, nbBinding, nbPending, nbDropped, nbWrites, nbFaults>>

\* An update is mapped to plans from the old and from the new object.
ChangeSelector(sel) ==
    /\ UserEdit
    /\ nbNotif.up /\ ~nbNotif.deleting
    /\ sel # nbNotif.sel
    /\ Write([nbNotif EXCEPT !.sel = sel])
    /\ nbQueued' = nbQueued \cup FindPlansForNotification(sel)
                            \cup FindPlansForNotification(nbNotif.sel)
    /\ UNCHANGED <<nbPlan, nbBinding, nbPending, nbDropped, nbWrites, nbFaults>>

DeleteNotification ==
    /\ UserEdit
    /\ nbNotif.up /\ ~nbNotif.deleting
    /\ Write(IF nbNotif.finalizer THEN [nbNotif EXCEPT !.deleting = TRUE] ELSE NoNotif)
    /\ nbQueued' = nbQueued \cup FindPlansForNotification(nbNotif.sel)
    /\ UNCHANGED <<nbPlan, nbBinding, nbPending, nbDropped, nbWrites, nbFaults>>

\* A plan is created, gets another label, or is deleted.
ChangePlan(p, label) ==
    /\ UserEdit
    /\ nbPlan[p] # label
    /\ nbPlan' = [nbPlan EXCEPT ![p] = label]
    /\ nbQueued' = nbQueued \cup {p}
    /\ UNCHANGED <<nbNotif, nbBinding, nbChanged, nbPending, nbDropped, nbWrites, nbFaults>>

\* The requeue processor: the plans are reconciled again at their next boundaries, when
\* what earlier reconciles published has been handled and written.
RequeuePlans ==
    /\ nbQueued = {} /\ nbPending = {} /\ nbWrites = <<>>
    /\ nbQueued' = ExistingPlans
    /\ UNCHANGED <<nbPlan, nbNotif, nbBinding, nbChanged, nbPending, nbDropped, nbWrites,
                   nbEdits, nbFaults>>

-----------------------------------------------------------------------------
\* NotificationContext, and its Equal.
Binding(p) == [notif |-> nbNotif, label |-> nbPlan[p], matches |-> nbPlan[p] = nbNotif.sel]

\* Slip: the resource version is not compared.
LabelChanged(p) == nbBinding[p] = NoBinding \/ nbBinding[p].label # nbPlan[p]

BindingChanged(p) ==
    \/ nbBinding[p] = NoBinding
    \/ p \in nbChanged
    \/ nbBinding[p].label # nbPlan[p]

(***************************************************************************)
(* fetchAndPublishNotifications, or for a plan that is gone                *)
(* deleteNotificationBindings: a binding of a notification or plan that is *)
(* gone is deleted, another one stored.  The subscriber sees the last      *)
(* update of a binding, with a deletion the value deleted.                 *)
(***************************************************************************)
PublishBinding(p) ==
    /\ p \in nbQueued
    /\ nbQueued' = nbQueued \ {p}
    /\ IF nbNotif.up /\ p \in ExistingPlans
       THEN /\ nbBinding' = [nbBinding EXCEPT ![p] = Binding(p)]
            /\ nbPending' = IF BindingChanged(p) THEN nbPending \cup {p} ELSE nbPending
            /\ nbDropped' = [nbDropped EXCEPT ![p] = NoBinding]
       ELSE /\ nbBinding' = [nbBinding EXCEPT ![p] = NoBinding]
            /\ nbPending' = IF nbBinding[p] # NoBinding THEN nbPending \cup {p} ELSE nbPending
            /\ nbDropped' = IF nbBinding[p] # NoBinding
                            THEN [nbDropped EXCEPT ![p] = nbBinding[p]] ELSE nbDropped
    /\ nbChanged' = nbChanged \ {p}
    /\ UNCHANGED <<nbPlan, nbNotif, nbWrites, nbEdits, nbFaults>>

-----------------------------------------------------------------------------
\* Repeated writes of one kind are queued once here: they change nothing more.
Send(w) == nbWrites' = IF \E i \in 1..Len(nbWrites) : nbWrites[i] = w /\ i = Len(nbWrites)
                       THEN nbWrites ELSE Append(nbWrites, w)

\* The object is read again before its finalizer is patched; a patch may fail.
PatchFinalizer(on, fails) ==
    LET n == nbNotif IN
    /\ fails => nbFaults < NbMaxFaults /\ n.up /\ n.finalizer # on
    /\ nbFaults' = nbFaults + (IF fails THEN 1 ELSE 0)
    /\ IF ~n.up \/ n.finalizer = on \/ fails \/ (on /\ n.deleting)
       THEN UNCHANGED <<nbNotif, nbChanged>>
       ELSE Write(IF n.deleting THEN NoNotif ELSE [n EXCEPT !.finalizer = on])

\* Slip: a notification that is being deleted is kept in the list.
DeletionIgnored(b) == FALSE

IsDeletion(b) == b.notif.deleting

HandleNotificationDeletion(fails) ==
    /\ IF nbNotif.up /\ (nbNotif.watched # {} \/ nbNotif.state # "Detached")
       THEN Send([kind |-> "clear", plan |-> ""]) ELSE UNCHANGED nbWrites
    /\ PatchFinalizer(FALSE, fails)

UpsertPlanRef(p, b) ==
    IF p \in b.notif.watched /\ b.notif.state = "Bound" THEN UNCHANGED nbWrites
    ELSE Send([kind |-> "upsert", plan |-> p])

(* removePlanRef: nothing when the delivered copy does not list the plan; the last *)
(* plan in that copy takes the finalizer with it.                                 *)
RemovePlanRef(p, b, fails) ==
    IF p \notin b.notif.watched
    THEN ~fails /\ UNCHANGED <<nbWrites, nbNotif, nbChanged, nbFaults>>
    ELSE /\ Send([kind |-> "remove", plan |-> p])
         /\ IF b.notif.watched = {p} THEN PatchFinalizer(FALSE, fails)
            ELSE ~fails /\ UNCHANGED <<nbNotif, nbChanged, nbFaults>>

(* The subscriber handles the last update of a binding. *)
HandleBinding(p) ==
    LET b == nbBinding[p] IN
    /\ p \in nbPending
    /\ nbPending' = nbPending \ {p}
    /\ nbDropped' = [nbDropped EXCEPT ![p] = NoBinding]
    /\ \E fails \in BOOLEAN :
         IF b = NoBinding THEN RemovePlanRef(p, nbDropped[p], fails)
         ELSE IF IsDeletion(b) THEN HandleNotificationDeletion(fails)
         ELSE IF b.matches THEN PatchFinalizer(TRUE, fails) /\ UpsertPlanRef(p, b)
         ELSE RemovePlanRef(p, b, fails)
    /\ UNCHANGED <<nbPlan, nbQueued, nbBinding, nbEdits>>

\* What the mutator of a status write does to the object as it is then.
Mutated(n, w) ==
    CASE w.kind = "upsert" -> [n EXCEPT !.watched = @ \cup {w.plan}, !.state = "Bound"]
      [] w.kind = "remove" -> [n EXCEPT !.watched = @ \ {w.plan},
                                 !.state = IF n.watched \subseteq {w.plan} THEN "Detached" ELSE @]
      [] w.kind = "clear" -> [n EXCEPT !.watched = {}, !.state = "Detached"]

ApplyWrite ==
    /\ nbWrites # <<>>
    /\ nbWrites' = Tail(nbWrites)
    /\ IF nbNotif.up /\ Mutated(nbNotif, Head(nbWrites)) # nbNotif
       THEN Write(Mutated(nbNotif, Head(nbWrites)))
       ELSE UNCHANGED <<nbNotif, nbChanged>>
    /\ UNCHANGED <<nbPlan, nbQueued, nbBinding, nbPending, nbDropped, nbEdits, nbFaults>>

-----------------------------------------------------------------------------
NBInit ==
    /\ nbPlan \in [NbPlans -> NbLabels \cup {""}]
    /\ LET sel == CHOOSE l \in NbLabels : TRUE IN   \* the labels are interchangeable
         /\ nbNotif = NewNotification(sel)
         /\ nbQueued = FindPlansForNotification(sel)
    /\ nbPending = {} /\ nbChanged = {}
    /\ nbBinding = [p \in NbPlans |-> NoBinding]
    /\ nbDropped = [p \in NbPlans |-> NoBinding]
    /\ nbWrites = <<>>
    /\ nbEdits = 0 /\ nbFaults = 0

Controller ==
    \/ \E p \in NbPlans : PublishBinding(p) \/ HandleBinding(p)
    \/ ApplyWrite
    \/ RequeuePlans

NBNext ==
    \/ \E sel \in NbLabels : CreateNotification(sel) \/ ChangeSelector(sel)
    \/ DeleteNotification
    \/ \E p \in NbPlans, label \in NbLabels \cup {""} : ChangePlan(p, label)
    \/ Controller

(* Fairness: the provider, the subscriber and the status writer run, and a plan is *)
(* reconciled again and again, at the boundaries of its schedule.                  *)
NBFairness ==
    WF_nbVars(Controller)

NBSpec == NBInit /\ [][NBNext]_nbVars /\ NBFairness

(***************************************************************************)
(* lifecycle.go "Bound: at least one HibernatePlan matches": after the     *)
(* last edit, a notification settles to watch exactly those of the         *)
(* existing plans that match, with its finalizer on as long as there is    *)
(* one, although bindings carry old copies, writes are queued and the      *)
(* finalizer is removed on a guess.  A patch that fails is not repeated    *)
(* before something else changes the notification.                         *)
(***************************************************************************)
BindingsSettle ==
    <>[](nbNotif.up /\ ~nbNotif.deleting /\ nbFaults = 0 =>
           /\ \A p \in ExistingPlans : p \in nbNotif.watched <=> nbPlan[p] = nbNotif.sel
           /\ (\E p \in ExistingPlans : nbPlan[p] = nbNotif.sel) => nbNotif.finalizer)

(***************************************************************************)
(* lifecycle.go handleNotificationDeletion: the deletion of a notification *)
(* ends while there is a plan in its namespace, also when the plans that   *)
(* matched go or change in the meantime or a patch fails.                  *)
(***************************************************************************)
NotificationDeletionEnds ==
    (nbNotif.up /\ nbNotif.deleting /\ ExistingPlans # {})
        ~> (~nbNotif.up \/ ~nbNotif.deleting \/ ExistingPlans = {})
=============================================================================
