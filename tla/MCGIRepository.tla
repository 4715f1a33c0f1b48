--------------------------- MODULE MCGIRepository ---------------------------
(* A small repository for TLC: Gtk requires Gio, Gio requires GObject. *)
EXTENDS GIRepository

CONSTANTS GObject, Gio, Gtk,             \* namespaces
          Object, Initable, Widget, Node, \* objects; Node is a fundamental type
          guess_type, Guess_type, init,   \* functions
          POINT_NAME, MAJOR_VERSION,      \* constants
          gio_guess_type, gtk_init        \* lower case names

MCRequires ==
    [ns \in Namespaces |-> CASE ns = Gtk -> {Gtk, Gio, GObject}
                             [] ns = Gio -> {Gio, GObject}
                             [] OTHER    -> {ns}]

MCHomeOf ==
    [i \in Infos |-> CASE i = Object -> GObject
                       [] i \in {Widget, Node, init} -> Gtk
                       [] OTHER -> Gio]

MCAncestors ==
    [o \in ObjectInfos |-> CASE o = Widget   -> {Widget, Initable, Object}
                             [] o = Initable -> {Initable, Object}
                             [] OTHER        -> {o}]

\* Two functions of Gio whose names differ in case only.
MCFunctionName == [f \in FunctionInfos |-> IF f = init THEN gtk_init ELSE gio_guess_type]
=============================================================================
