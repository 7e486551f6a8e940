------------------------------ MODULE MCPrograms ------------------------------
(***************************************************************************)
(* Programs for Execution that TLC runs.                                   *)
(***************************************************************************)
EXTENDS Expressions

Node(op, parts) ==
  [op |-> op, parts |-> parts, shape |-> <<>>, dim |-> 0, limbs |-> 1, key |-> 0, stream |-> 0,
   source |-> <<0, 0>>]

Tensor(shape, source)        == [Node("tensor", <<>>) EXCEPT !.shape = shape, !.source = source]
Uniform(shape, limbs)        == [Node("uniform", <<>>) EXCEPT !.shape = shape, !.limbs = limbs]
Generator(shape, stream)     == [Node("generator", <<>>) EXCEPT !.shape = shape, !.limbs = 2,
                                                               !.key = 1, !.stream = stream]
NewDim(part, dim)            == [Node("unsqueeze", <<part>>) EXCEPT !.dim = dim]
Cipher(op, part, limbs, nonce) == [Node(op, <<part>>) EXCEPT !.limbs = limbs, !.key = 2, !.stream = nonce]

\* tests/expr/random/number_generator.cpp: r is used three times, and a result itself.
Mask2 == [graph |-> <<Uniform(<<2>>, 2), Tensor(<<2>>, <<0, 2>>), Node("add", <<1, 1>>),
                      Node("add", <<3, 2>>)>>,
          calls |-> <<<<4, 1>>>>]

\* Two random elements in one kernel, and both again in the next call, with the first result.
Twice == [graph |-> <<Uniform(<<2>>, 2), Uniform(<<2>>, 1), Node("add", <<1, 2>>),
                      Tensor(<<2>>, <<1, 8>>), Node("add", <<4, 1>>)>>,
          calls |-> <<<<3>>, <<5, 2>>>>]

\* A row that is added to a matrix in each of its rows, as it is drawn and for unsqueeze.
Rows == [graph |-> <<Tensor(<<3, 2>>, <<0, 1>>), Uniform(<<2>>, 1), NewDim(2, 0), Node("add", <<1, 3>>),
                     Uniform(<<0, 2>>, 1), Node("add", <<5, 4>>)>>,
         calls |-> <<<<6>>>>]

\* The vector is used in each row of the product.
Linear == [graph |-> <<Uniform(<<3, 2>>, 1), Uniform(<<2>>, 2), Node("matrix_vector", <<1, 2>>),
                       Uniform(<<3>>, 2), Node("add", <<3, 4>>)>>,
           calls |-> <<<<5>>>>]

Products == [graph |-> <<Uniform(<<2, 3>>, 1), Tensor(<<3, 2>>, <<0, 2>>), Node("cast", <<1>>),
                        Node("matrix", <<3, 2>>)>>,
            calls |-> <<<<4>>>>]

\* A sum is used in each element, and for a second sum.
Sums2 == [graph |-> <<Tensor(<<2, 2>>, <<0, 1>>), Uniform(<<2, 2>>, 2), Node("add", <<1, 2>>),
                      Node("reduce", <<3>>), Node("add", <<1, 4>>), Node("reduce", <<5>>),
                      Node("value", <<>>), Node("add", <<7, 5>>)>>,
          calls |-> <<<<8, 6>>>>]

\* Elements of three limbs, four in a batch of three blocks, with a last batch that is not full;
\* and decryption of full batches, in another call and in the same one.
Ciphers == [graph |-> <<Uniform(<<3, 2>>, 2), Cipher("enc", 1, 3, 1), Tensor(<<2, 2>>, <<0, 3>>),
                        Cipher("enc", 3, 3, 2), Tensor(<<2, 2, 3>>, <<1, 4>>), Cipher("dec", 5, 3, 2),
                        Cipher("dec", 4, 3, 2)>>,
            calls |-> <<<<2, 4>>, <<6>>>>]

Nested == [graph |-> <<Tensor(<<2, 2>>, <<0, 1>>), Uniform(<<2, 2>>, 3), Node("add", <<1, 2>>),
                       Cipher("enc", 3, 2, 1), Cipher("dec", 4, 2, 1), Node("add", <<5, 2>>)>>,
           calls |-> <<<<6>>>>]

\* Two parts of the elements of one key.
Parts == [graph |-> <<Generator(<<3>>, 0), Generator(<<3>>, 1), Node("add", <<1, 2>>),
                      Node("add", <<3, 1>>)>>,
          calls |-> <<<<4, 1>>>>]

MCProgramsAll == {Mask2, Twice, Rows, Linear, Products, Sums2, Ciphers, Nested, Parts}

\* r is a result of its own, and comes after another one that it is used in.
Early == [graph |-> <<Uniform(<<2>>, 1), Tensor(<<2>>, <<0, 2>>), Node("add", <<1, 2>>)>>,
          calls |-> <<<<3, 1>>>>]

MCProgramsEarly == {Early}
===============================================================================
