---------------------------- MODULE MCRequestPath ----------------------------
(* Values of the constants of RequestPath for TLC.                         *)
EXTENDS RequestPath, TLC
CONSTANTS shop, blog, ann, bob, q1, q2

Sites   == {shop, blog}
Clients == {ann, bob}
Slots   == {q1, q2}
SlotSymmetry == Permutations(Slots)
\* sqli is what the detectors deny; spared looks like it, and each configuration spares
\* it in its own way; off makes a disable rule fire.
Kinds == {"clean", "sqli", "spared", "off"}

NoGeo == [white |-> {}, trusted |-> FALSE, black |-> {}]
Attack == {"sqli", "spared"}

Plain == [disabled |-> FALSE, intercept |-> TRUE, auth |-> FALSE, reject |-> FALSE,
          white |-> {}, black |-> {}, geo |-> NoGeo, bot |-> FALSE,
          captcha |-> FALSE, challenge |-> {}, ratelimit |-> FALSE,
          denies |-> [st \in Detectors |-> IF st = "botdetect" THEN {} ELSE Attack]]

Deny   == [sites |-> {shop}, hits |-> {"sqli"}, log |-> FALSE, action |-> "deny", stages |-> {}]
Let    == [sites |-> {}, hits |-> {"spared"}, log |-> FALSE, action |-> "allow", stages |-> {}]
Off    == [sites |-> {shop}, hits |-> {"off"}, log |-> TRUE, action |-> "disable",
           stages |-> {"semantic", "coraza"}]

\* The shop intercepts; the blog is monitored and asks for a password; ann is whitelisted.
First ==
  [site |-> (shop :> Plain) @@ (blog :> [Plain EXCEPT !.intercept = FALSE, !.auth = TRUE]),
   white |-> {ann}, black |-> {}, exempt |-> [s \in Sites |-> {}],
   excepted |-> [s \in Sites |-> {}], matchers |-> <<Off>>,
   penalty |-> [mode |-> "deny", threshold |-> 2]]

\* Attacks on the shop are refused without a record, spared requests are on an exempt
\* path, nothing disables a module; the blog limits bodies and trusts a country.
Second ==
  [First EXCEPT !.white = {}, !.exempt = [s \in Sites |-> {"spared"}], !.matchers = <<Deny>>,
     !.site = (shop :> [Plain EXCEPT !.bot = TRUE]) @@
              (blog :> [Plain EXCEPT !.reject = TRUE,
                                     !.geo = [white |-> {ann}, trusted |-> TRUE, black |-> {}]])]

\* The penalty throttles after one event; a rule allows spared requests; the shop limits
\* rates and excepts the one rule attacks meet; the blog has the captcha.
Third ==
  [First EXCEPT !.white = {}, !.matchers = <<Off, Let>>,
     !.excepted = (shop :> {"sqli"}) @@ (blog :> {}),
     !.penalty = [mode |-> "throttle", threshold |-> 1],
     !.site = (shop :> [Plain EXCEPT !.ratelimit = TRUE, !.denies["coraza"] = {}]) @@
              (blog :> [Plain EXCEPT !.captcha = TRUE])]

Revisions == {"first", "second", "third"}
Later     == {"second", "third"}
Contents  == [rev \in Revisions |->
                IF rev = "first" THEN First ELSE IF rev = "second" THEN Second ELSE Third]

Ask(host, client, kind) ==
  [host |-> host, client |-> client, kind |-> kind, creds |-> TRUE, over |-> FALSE,
   pass |-> TRUE]

Asked ==
  {Ask(shop, bob, "sqli"), Ask(shop, ann, "spared"), Ask(shop, bob, "off"),
   [Ask(blog, bob, "sqli") EXCEPT !.over = TRUE],
   [Ask(blog, ann, "clean") EXCEPT !.creds = FALSE, !.pass = FALSE]}
=============================================================================
