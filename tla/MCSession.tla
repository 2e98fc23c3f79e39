----------------------------- MODULE MCSession -----------------------------
(***************************************************************************)
(* Two contents: the empty language and another one.  Their composition is *)
(* not symmetric, as the order of the operands matters.                    *)
(***************************************************************************)
EXTENDS Session

MCContent == {"void", "full"}
MCChange(c) == IF c = "void" THEN "full" ELSE "void"
MCCompose(c, d) == IF c = "full" /\ d = "void" THEN "full" ELSE "void"
MCUnite(c, d) == IF "full" \in {c, d} THEN "full" ELSE "void"
MCChunk == 1..4
MCCell == 1..4
MCMatrix == {1}

(***************************************************************************)
(* VIEW: addresses are only ever compared, so two states are the same when *)
(* they differ in them alone.  A network is known by its place among those *)
(* that someone has, an entry by its place on the stack.                   *)
(***************************************************************************)
Nets == OnStack(memory) \o [i \in DOMAIN memory.defs |-> memory.defs[i].net]
Place(x, seq) == {i \in DOMAIN seq : seq[i] = x}
Shown(handle) ==
  IF handle = NULL THEN {} ELSE {<<Place(handle.net, Nets), handle.cm>>}

Shape ==
  LET nets == Nets
      path == Path(memory)
  IN
  <<doing, memory = memory,
    [i \in DOMAIN nets |-> <<memory.net[nets[i]], Place(nets[i], nets)>>],
    [k \in DOMAIN path |->
       LET e == memory.cell[path[k]]
       IN  <<e.number, Place(e.previous, path), Shown(e.ah), Shown(e.amedh)>>],
    [i \in DOMAIN memory.defs |-> memory.defs[i].name],
    Room(memory), memory.live, memory.broken, memory.turned, memory.shared>>
=============================================================================
