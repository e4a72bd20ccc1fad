------------------------------- MODULE People -------------------------------
(* Whom the team knows.  Team accounts of dontlie/auth/users.py: users with  *)
(* roles, what a role may do, and the audit log.  The lead pipeline of       *)
(* dontlie/crm/lead_pipe.py: leads by id, added by email; company and notes  *)
(* are left out.  An email is its lower-case form; a key and its hash are    *)
(* one value.                                                                *)
EXTENDS Naturals, Sequences

-----------------------------------------------------------------------------
(* Team accounts *)

Actions == {"receipt:read", "receipt:append", "receipt:export", "receipt:delete",
            "key:revoke", "key:rotate", "user:invite", "user:list", "audit:read"}

RoleGrants ==
  [admin    |-> Actions,
   auditor  |-> {"receipt:read", "receipt:export", "user:list", "audit:read"},
   operator |-> {"receipt:read", "receipt:append", "receipt:export",
                 "key:revoke", "key:rotate", "user:list"},
   viewer   |-> {"receipt:read"}]

Roles == DOMAIN RoleGrants

User(id, email, role) == [id |-> id, email |-> email, role |-> role]

\* TeamVault(): nobody, and an empty log.
EmptyTeam == [users |-> {}, audit |-> <<>>]

\* add_user refuses an email it knows; a user id that is taken is given to the
\* new user.
MayAddUser(team, user) == ~\E u \in team.users : u.email = user.email
AddUser(team, user) ==
  [team EXCEPT !.users = {u \in @ : u.id # user.id} \cup {user}]

\* authorize: every check is logged, the refused ones too.
Authorize(team, user, action) ==
  [team EXCEPT !.audit =
     Append(@, [id |-> user.id, action |-> action, ok |-> action \in RoleGrants[user.role]])]

\* Fault variant: users without a right of their own are not read back.
LoadTeamActive(file) ==
  [users |-> {u \in file.users : u.role # "viewer"}, audit |-> <<>>]

\* load() of a file that save() wrote: the users, but not the log.
LoadTeam(file) == [users |-> file.users, audit |-> <<>>]

-----------------------------------------------------------------------------
(* The lead pipeline *)

Statuses == {"new", "qualified", "piloting", "won", "lost"}

Lead(id, email, score, status) ==
  [id |-> id, email |-> email, score |-> score, status |-> status]

\* LeadPipe(): no leads.
EmptyPipe == [leads |-> {}]

\* add: a lead whose email is known keeps its id and status and its best score.
AddLead(pipe, lead) ==
  LET known == {l \in pipe.leads : l.email = lead.email}
      best(l) == IF lead.score > l.score THEN lead.score ELSE l.score
      first == CHOOSE l \in known : TRUE
  IN  IF known = {} THEN [pipe EXCEPT !.leads = @ \cup {lead}]
      ELSE [pipe EXCEPT !.leads = (@ \ {first}) \cup {[first EXCEPT !.score = best(first)]}]

\* update: the fields one by one, up to the first that is refused, which
\* raises; those before it are set.
UpdateLead(pipe, lead, score, status) ==
  [pipe EXCEPT !.leads = (@ \ {lead}) \cup
     {IF status \in Statuses THEN [lead EXCEPT !.score = score, !.status = status]
      ELSE [lead EXCEPT !.score = score]}]
=============================================================================
