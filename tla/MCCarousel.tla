------------------------------ MODULE MCCarousel ------------------------------
(* Values for the constants of Carousel that a .cfg cannot write.          *)
EXTENDS Carousel, TLC

ThreeModules == {"a", "b", "c"}

(* With blocks of 2 bytes: a module that ends with a shorter block, one of *)
(* whole blocks and an empty one; the next version has more blocks of one, *)
(* fewer of another and something in the third.                            *)
Sizes ==
  0 :> ("a" :> 3 @@ "b" :> 4 @@ "c" :> 0) @@
  1 :> ("a" :> 5 @@ "b" :> 1 @@ "c" :> 2)
===============================================================================
