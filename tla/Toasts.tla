------------------------------- MODULE Toasts -------------------------------
(***************************************************************************)
(* The operator UI's notifications (hooks/use-toast.ts): a reducer over    *)
(* module-level state, of which one toast is kept, and a timer for each    *)
(* toast that was dismissed, after which it is removed.  A toast is its    *)
(* identifier, whether it is open, and how often it was updated.           *)
(***************************************************************************)
EXTENDS Integers, Sequences

CONSTANT MaxToasts   \* bound: toasts made

ASSUME MaxToastsAssumption == MaxToasts \in Nat

TOAST_LIMIT == 1

VARIABLES
  count,          \* the identifier given out last
  toasts,         \* memoryState.toasts, the newest first
  toastTimeouts   \* the identifiers that have a timer

toastVars == <<count, toasts, toastTimeouts>>

ToastsInit == count = 0 /\ toasts = <<>> /\ toastTimeouts = {}

ToastsTypeOK ==
  /\ count \in 0..MaxToasts
  /\ toasts \in Seq([id : 1..MaxToasts, open : BOOLEAN, updates : 0..1])
  /\ Len(toasts) <= TOAST_LIMIT
  /\ toastTimeouts \subseteq 1..MaxToasts

Shortened(s) == SubSeq(s, 1, IF Len(s) < TOAST_LIMIT THEN Len(s) ELSE TOAST_LIMIT)

\* Those of ids get a timer, unless they have one.
AddToRemoveQueue(ids) == toastTimeouts' = toastTimeouts \cup ids

\* toast(): ADD_TOAST.  The oldest toasts are dropped, their timers are not.
Toast ==
  /\ count < MaxToasts
  /\ count' = count + 1
  /\ toasts' = Shortened(<<[id |-> count + 1, open |-> TRUE, updates |-> 0]>>
                         \o toasts)
  /\ UNCHANGED toastTimeouts

\* update() of a toast that may be gone: UPDATE_TOAST.
UpdateToast(id) ==
  /\ toasts' = [i \in 1..Len(toasts) |->
                  IF toasts[i].id = id THEN [toasts[i] EXCEPT !.updates = 1]
                                       ELSE toasts[i]]
  /\ UNCHANGED <<count, toastTimeouts>>

Closing(ids) ==
  [i \in 1..Len(toasts) |->
     IF toasts[i].id \in ids THEN [toasts[i] EXCEPT !.open = FALSE] ELSE toasts[i]]

\* Mutant: only a toast that is still there is queued, and only once closed.
DismissToastLate(id) ==
  /\ toasts' = Closing({id})
  /\ AddToRemoveQueue({i \in {id} : \E k \in 1..Len(toasts) :
                         toasts[k].id = i /\ ~toasts[k].open})
  /\ UNCHANGED count

\* dismiss() of one toast, by its caller, its button or its own time: it may
\* be gone, and gets a timer all the same.
DismissToast(id) ==
  /\ toasts' = Closing({id})
  /\ AddToRemoveQueue({id})
  /\ UNCHANGED count

\* The hook's dismiss() without an identifier.
DismissAll ==
  LET ids == {toasts[i].id : i \in 1..Len(toasts)} IN
  /\ toasts' = Closing(ids)
  /\ AddToRemoveQueue(ids)
  /\ UNCHANGED count

\* The timer of id fires: REMOVE_TOAST.  The toast may be gone; there is one
\* of an identifier.
RemoveToast(id) ==
  /\ id \in toastTimeouts
  /\ toastTimeouts' = toastTimeouts \ {id}
  /\ IF \E i \in 1..Len(toasts) : toasts[i].id = id
     THEN \E i \in 1..Len(toasts) :
            /\ toasts[i].id = id
            /\ toasts' = SubSeq(toasts, 1, i - 1)
                         \o SubSeq(toasts, i + 1, Len(toasts))
     ELSE UNCHANGED toasts
  /\ UNCHANGED count

ToastsNext ==
  \/ Toast
  \/ \E id \in 1..count : UpdateToast(id) \/ DismissToast(id) \/ RemoveToast(id)
  \/ DismissAll

\* A toast that was dismissed will be removed: it has a timer, whatever was
\* shown, dropped, updated or dismissed again since (use-toast.ts).
ClosedToastsGo ==
  \A i \in 1..Len(toasts) : ~toasts[i].open => toasts[i].id \in toastTimeouts

=============================================================================
