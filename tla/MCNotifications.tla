--------------------------- MODULE MCNotifications ---------------------------
(* Notifications for TLC: two or three jobs that meet in one recipient,    *)
(* whose tab hears of all, or in one task.                                 *)
EXTENDS Notifications

CONSTANTS u1, u2, u3, j1, j2, j3, t1, k1, k2, k3

\* k1 has a date; k3 has no assignee, and in some of the asks is still to be created.
MCDueOn    == [t \in Task |-> IF t = k1 THEN 2 ELSE 0]
MCAssigned == [t \in Task |-> IF t = k3 THEN Stranger ELSE u1]
MCOwner    == [t \in Tab |-> u2]

A(type, u, t, to, day, done) ==
  [type |-> type, actor |-> u, task |-> t, to |-> to, due |-> day, done |-> done]

Comment(to)            == A("mention", u1, k1, to, <<>>, <<>>)
Invite(type, who)      == A(type, u1, k1, <<who>>, <<>>, <<>>)
NewTask(u, who, day)   == A("task_created", u, k3, <<who>>, <<day>>, <<FALSE>>)
Assign(u, t, who)      == A("task_updated", u, t, <<who>>, <<>>, <<>>)
Move(u, t, day)        == A("task_updated", u, t, <<>>, <<day>>, <<>>)
Finish(u, t)           == A("task_updated", u, t, <<>>, <<>>, <<TRUE>>)
Reminder(day)          == A("task_due_soon", u1, k1, <<>>, <<day>>, <<>>)
Nothing                == Reminder(LastDay + 1)

Triples ==
  {<<Comment(<<Stranger, u1, u3, u2>>), Invite("project_invite", u3), Nothing>>,
   <<Invite("workspace_invite", u3), Invite("project_invite", u2), Nothing>>,
   <<Comment(<<u2>>), Assign(u1, k2, u2), Nothing>>,
   <<Assign(u2, k3, u2), Assign(u2, k3, u1), Nothing>>,
   <<NewTask(u1, u2, 2), Assign(u2, k3, u1), Nothing>>,
   <<NewTask(u2, u1, 2), Reminder(1), Nothing>>,
   <<Assign(u2, k1, u2), Reminder(1), Nothing>>,
   <<Finish(u1, k1), Reminder(1), Nothing>>,
   <<Reminder(1), Reminder(2), Move(u1, k1, 3)>>}

MCAsks == {[j \in Job |-> p[CASE j = j1 -> 1 [] j = j2 -> 2 [] OTHER -> 3]] : p \in Triples}
==============================================================================
