------------------------- MODULE MCDelimitedStream -------------------------
\* Small messages for DelimitedStream: every field alone, fields together, an
\* int32 below zero (which takes the most bytes) and bytes that look like tags.
EXTENDS DelimitedStream

Full == {[Empty EXCEPT !.num = -1],
         [Empty EXCEPT !.num = 1, !.text = <<9, 1>>],
         [Empty EXCEPT !.list = <<-8, 0, 7>>],
         [Empty EXCEPT !.names = <<<<>>, <<8, 1>>>>, !.list = <<1>>]}

\* The field that old readers do not know, and one that they do.
Newer == {[Empty EXCEPT !.num = 1], [Empty EXCEPT !.num = 1, !.names = <<<<>>>>]}

WithEmpty == {Empty, [Empty EXCEPT !.num = 1]}

\* The messages of the run for a reader that knows every field are as the theorems assume.
ASSUME FullAgrees == Known = 1 .. 4 => Agreed
=============================================================================
