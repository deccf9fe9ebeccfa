--------------------------------- MODULE MCJpeg ---------------------------------
(* Instances of Jpeg for TLC. *)
EXTENDS Jpeg

Scan(comps, ss, se, ah, al) == [comps |-> comps, ss |-> ss, se |-> se, ah |-> ah, al |-> al]

Grey == <<<<1, 1>>>>
Two  == <<<<2, 1>>, <<1, 1>>>>

Shape(width, factors, progressive, interval, script) ==
  [width |-> width, height |-> 8, factors |-> factors, progressive |-> progressive,
   interval |-> interval, script |-> script]

(* Two blocks, all band: first to one bit less, then the last bit.         *)
Approximation == <<Scan(<<1>>, 0, 0, 0, 1), Scan(<<1>>, 1, 4, 0, 1),
                   Scan(<<1>>, 0, 0, 1, 0), Scan(<<1>>, 1, 4, 1, 0)>>

(* Spectral selection, and a refinement of a part of the band.             *)
Selection == <<Scan(<<1>>, 0, 0, 0, 0), Scan(<<1>>, 1, 2, 0, 0), Scan(<<1>>, 3, 4, 0, 2),
               Scan(<<1>>, 3, 4, 2, 1), Scan(<<1>>, 3, 4, 1, 0)>>

(* Component 1 has three blocks in a buffer of four, component 2 two.      *)
Interleaved == <<Scan(<<1, 2>>, 0, 0, 0, 1), Scan(<<1>>, 1, 4, 0, 1), Scan(<<2>>, 1, 4, 0, 1),
                 Scan(<<2, 1>>, 0, 0, 1, 0), Scan(<<1>>, 1, 4, 1, 0), Scan(<<2>>, 1, 4, 1, 0)>>

Shapes ==
  {Shape(16, Grey, TRUE, r, Approximation) : r \in {0, 1}}
    \cup {Shape(16, Grey, TRUE, 0, Selection)}
    \cup {Shape(16, Grey, FALSE, r, <<Scan(<<1>>, 0, 4, 0, 0)>>) : r \in {0, 1}}
    \cup {Shape(17, Two, TRUE, r, Interleaved) : r \in {0, 1}}
    \cup {Shape(17, Two, FALSE, r, <<Scan(<<1, 2>>, 0, 4, 0, 0)>>) : r \in {0, 1}}

(* Blocks of a DC value and four others: nothing there, a new one of one   *)
(* bit, old ones that a last bit corrects or not.                          *)
First  == {<<-3>> \o ac : ac \in [1 .. 4 -> {0, 1, -3}]}
Second == {<<2>> \o ac : ac \in [1 .. 4 -> {0, -2}]}

Few ==
  {<<5, 0, 0, 0, 0>>, <<-4, 0, -1, 0, 3>>, <<1, -2, 0, 0, 1>>}

Contents(s) ==
  IF s.factors = Two THEN [Buffer(s) -> Few]
  ELSE {f \in [Buffer(s) -> First \cup Second] : f[1, 0, 0] \in First /\ f[1, 1, 0] \in Second}

MCPicture ==
  UNION {{[width |-> s.width, height |-> s.height, factors |-> s.factors,
           progressive |-> s.progressive, interval |-> s.interval, script |-> s.script,
           image |-> [at \in Buffer(s) |-> [j \in 0 .. 4 |-> f[at][j + 1]]]]
            : f \in Contents(s)}
          : s \in Shapes}
===============================================================================
