-------------------------- MODULE MCShellSessions --------------------------
(* ShellSessions for TLC: two windows, and the template directories of the
   card image in the order firstboot.c looks for them.  The view leaves out
   what nothing reads any more: a closed window, but for the directory of one
   that nano or a command line still works in; the password given before a
   mismatch; what the user was told before the card failed. *)
EXTENDS ShellSessions

CONSTANTS ann, users, user

MCTemplates == <<users, user>>
MCWindows == 0..1
MCPlaces == {Root, ann, users}

WorkedIn(w) == running = w \/ (nano.on /\ nano.term = w)

Read ==
  <<power, card, damaged, IF damaged THEN NoEntry ELSE told,
    [w \in Windows |->
       IF term[w].active
       THEN <<term[w].image, term[w].cwd, term[w].viewer \/ term[w].crowded>>
       ELSE IF WorkedIn(w) THEN <<term[w].cwd>> ELSE <<>>],
    active_terminal, refs, running, login,
    IF firstboot.step = "password" THEN [firstboot EXCEPT !.pass = NULL] ELSE firstboot,
    IF passwd.step = "new" THEN [passwd EXCEPT !.new = NULL] ELSE passwd,
    nano, accepted>>
=============================================================================
