----------------------------- MODULE MCLazyBuild -----------------------------
(* Two threads use the models of every schema of three models whose        *)
(* relations have two sides.                                               *)
EXTENDS LazyBuild

CONSTANTS a, b, c

\* One of each form: no order of models is better than another.
Forms ==
  {[m \in Models |-> CASE m = a -> p[1] [] m = b -> p[2] [] OTHER -> p[3]] :
     p \in {<<{}, {}, {}>>, <<{b}, {a}, {}>>, <<{b}, {a, c}, {b}>>, <<{b, c}, {a, c}, {a, b}>>}}
=============================================================================
