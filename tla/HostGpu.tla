------------------------------- MODULE HostGpu -------------------------------
(* The Vulkan executor of crates/infinigpu-replay: one VkDevice shared by     *)
(* every VM, its content-keyed caches, and the calls that render through them *)
(* one at a time (SharedGpu holds a mutex around each).  Every Vulkan call    *)
(* that can fail may fail; the model tracks which objects exist, which cache  *)
(* or call owns them, and what the queue is executing with.                   *)
EXTENDS Integers, Sequences, FiniteSets, Functions

CONSTANTS
    Draws,        \* forwarded draws: [vs, fs, entry, mesh, depth, bufs, texs, size]
    Bufs,         \* guest scanout buffers a frame can be imported into
    Entries,      \* the entry points callers use (see Path)
    EntryPoints,  \* the entry points that the shader modules have; a draw may name others
    None,         \* "no mesh", "no descriptor set", "no draw"
    Cap,          \* bound of each cache: [pipelines |-> 256, modules |-> 512, ...]
    ByteCap,      \* MAX_CACHED_GEOM_BYTES, MAX_CACHED_TEX_BYTES, in uploads
    MaxTextures   \* MAX_TEXTURES: the most one frame may bind

Bounded == {"pipelines", "modules", "scratch", "geoms", "texs", "layouts", "imports"}
Parts == Bounded \union {"passes", "upload"}

ASSUME CapAssumption == \A part \in Bounded : Cap[part] \in Nat \ {0}

\* The entry points there are, and draws that bind as many textures as allowed.
ASSUME CallAssumption ==
    /\ Entries \subseteq {"present", "zerocopy", "triangle", "export", "convert", "convertExport", "clear"}
    /\ MaxTextures \in Nat /\ ByteCap \in Nat
    /\ None \notin Draws \union Bufs
    /\ \A d \in Draws : /\ d.bufs \in Nat /\ d.texs \in Seq(Range(d.texs)) /\ Len(d.texs) <= MaxTextures
                        /\ None # <<d.bufs, Len(d.texs)>>

VARIABLES
    mode,    \* [object, scratch, resource : BOOLEAN]
    cache,   \* every cache: a function from keys to the objects it owns
    bytes,   \* GeomCache.bytes and TexCache.bytes
    live,    \* the objects that exist on the VkDevice
    stray,   \* handles of half-built objects that no path will free
    frame,   \* the call being executed: its remaining stages and what it holds
    gpu,     \* the objects the queue is executing with
    mapped   \* the guest buffers whose RAM is mapped in this process

vars == <<mode, cache, bytes, live, stray, frame, gpu, mapped>>

\* The environment can switch each cache off; the last two need the first.
Modes == {m \in [object : BOOLEAN, scratch : BOOLEAN, resource : BOOLEAN] :
             m.scratch \/ m.resource => m.object}

Empty == <<>>
Add(f, k, o) == [x \in DOMAIN f \union {k} |-> IF x = k THEN o ELSE f[x]]

\* An object is named by its kind and what it was built from; "gen" tells apart
\* two objects of the same kind and content.
Object(kind, key) ==
    LET free == {g \in 0..(MaxTextures + 1) : [kind |-> kind, key |-> key, gen |-> g] \notin live}
    IN  [kind |-> kind, key |-> key, gen |-> CHOOSE g \in free : \A h \in free : g <= h]

Held == UNION {Range(cache[p]) : p \in Parts}

(***************************** the caches' keys ******************************)
HasMesh(d) == d.mesh # None
Sig(d) == IF d.bufs = 0 /\ d.texs = <<>> THEN None ELSE <<d.bufs, Len(d.texs)>>
HasGeometry(d) == HasMesh(d) \/ Sig(d) # None
ScratchKey(d) == <<d.size, d.depth>>

\* What a pipeline is compiled from, and what it is cached by: the entry names
\* of the shaders are in the first only.
BuiltFrom(d) == [vs |-> d.vs, fs |-> d.fs, entry |-> d.entry, mesh |-> HasMesh(d),
                 depth |-> d.depth, sig |-> Sig(d)]
PipelineKey_NoSignature(d) == [x \in DOMAIN BuiltFrom(d) \ {"entry", "sig"} |-> BuiltFrom(d)[x]]
PipelineKey(d) == [x \in DOMAIN BuiltFrom(d) \ {"entry"} |-> BuiltFrom(d)[x]]
Compiles(d) == d.entry \in EntryPoints

(************************* calls that build an object ************************)
\* The fallible calls of each builder, in order; the ones in Uses make no handle.
Uses == {"bind", "map", "cmd", "set", "begin", "end", "fd"}
TargetCalls == <<"image", "img_mem", "bind", "view">>
ReadbackCalls == <<"framebuffer", "readback", "rb_mem", "bind">>
ExportCalls == <<"export_buffer", "export_mem", "bind">>
CommandCalls == <<"pool", "cmd", "begin", "end", "fence">>
ClearCalls == TargetCalls \o <<"render_pass">> \o ReadbackCalls \o CommandCalls
StagingCalls == <<"staging", "st_mem", "bind", "map">>
ConvertCalls == StagingCalls \o <<"src_img", "src_mem", "bind", "dst_img", "dst_mem", "bind",
                                  "rb", "rb_mem", "bind">>
ScratchCalls(deep) ==
    TargetCalls \o (IF deep THEN <<"depth_image", "depth_mem", "bind", "depth_view">> ELSE <<>>)
                \o ReadbackCalls \o <<"pool", "cmd", "fence", "map">>
OwnModuleCalls == <<"render_pass", "vs_module", "fs_module">>
OwnPipelineCalls == <<"layout", "pipeline">>
GeometryCalls == <<"vbo", "vbo_mem", "bind", "map", "ibo", "ibo_mem", "bind", "map">>
DescriptorCalls(n) == <<"desc_pool", "set">> \o
    [i \in 1..(4 * n) |-> <<"buf", "mem", "bind", "map">>[1 + ((i - 1) % 4)]]
TextureCalls == StagingCalls \o <<"image", "image_mem", "bind", "view", "sampler">>
OwnTextureCalls == TextureCalls
ConvertCommandCalls == CommandCalls
ImportCalls == <<"import_mem", "import_buffer", "bind">>
UploadCalls == <<"pool", "cmd", "fence">>

Calls(kind) ==
    CASE kind = "target" -> TargetCalls
      [] kind = "readback" -> ReadbackCalls
      [] kind = "export" -> ExportCalls
      [] kind = "command" -> CommandCalls
      [] kind = "clear" -> ClearCalls
      [] kind = "convert" -> ConvertCalls
      [] kind = "convertCommand" -> ConvertCommandCalls
      [] kind = "scratch" -> ScratchCalls(frame.d.depth)
      [] kind = "ownModules" -> OwnModuleCalls
      [] kind = "ownPipeline" -> OwnPipelineCalls
      [] kind \in {"geoms", "ownGeometry"} -> GeometryCalls
      [] kind = "descs" -> DescriptorCalls(frame.d.bufs)
      [] kind = "texs" -> TextureCalls
      [] kind = "ownTexture" -> OwnTextureCalls
      [] kind = "imports" -> ImportCalls
      [] kind = "upload" -> UploadCalls
      [] OTHER -> <<kind>>

\* The handles each cleanup guard destroys when it is dropped.
RenderFields == {"fence", "pool", "pipeline", "layout", "vs_module", "fs_module", "framebuffer",
                 "render_pass", "view", "image", "img_mem", "depth_view", "depth_image", "depth_mem",
                 "readback", "rb_mem", "export_buffer", "export_mem"}
ConvertFields == {"fence", "pool", "export_buffer", "export_mem", "rb", "rb_mem", "staging", "st_mem",
                  "dst_img", "dst_mem", "src_img", "src_mem"}
Guard(kind) ==
    CASE kind \in {"target", "readback", "export", "command", "clear", "scratch", "ownModules",
                   "ownPipeline"} -> RenderFields
      [] kind \in {"convert", "convertCommand"} -> ConvertFields
      [] OTHER -> Range(Calls(kind))

\* How many calls must have succeeded before the guard knows the handle the i-th
\* made: most builders register it at once, render_clear learns of its command
\* pool only after the command buffer, and the exported buffer and its memory
\* are registered only once they are bound.
Registered(kind, i) ==
    CASE kind = "clear" /\ Calls(kind)[i] = "pool" -> i + 1
      [] kind = "export" -> Len(ExportCalls)
      [] OTHER -> i

\* The handles left behind when call n + 1 of a builder fails.
Lost(kind, n) ==
    {<<kind, Calls(kind)[i]>> : i \in {j \in 1..n :
        /\ Calls(kind)[j] \notin Uses
        /\ Registered(kind, j) > n \/ Calls(kind)[j] \notin Guard(kind)}}

(********************************* one call **********************************)
Idle == [todo |-> <<>>, d |-> None, buf |-> None, refs |-> {}, own |-> {}, pend |-> <<>>, next |-> 1]

When(b, s) == IF b THEN s ELSE <<>>

\* The stages of each entry point, in the order the code takes them.
Shown == <<"submit", "wait", "present">>
CachedPath(d) ==
    <<"pipeline", "scratch">> \o When(mode.resource, <<"trim">>)
    \o When(HasMesh(d), <<IF mode.resource THEN "geoms" ELSE "ownGeometry">>)
    \o When(Sig(d) # None, <<"layouts", "descs">>)
    \o When(d.texs # <<>>, IF mode.resource THEN <<"texs", "upload">> ELSE <<"ownTexture">>)
    \o Shown
ZeroCopyPath == <<"pipeline", "imports", "scratch">> \o Shown
\* With the pipeline cache off the set layout still comes from its cache.
OwnPipelinePath(d) == <<"ownModules">> \o When(Sig(d) # None, <<"layouts">>) \o <<"ownPipeline">>
TrianglePath(d, export) ==
    <<"target">> \o (IF mode.object THEN <<"pipeline">> ELSE OwnPipelinePath(d))
    \o (IF export THEN <<"readback", "export", "command">> ELSE <<"readback", "command">>) \o Shown
ConvertPath(export) ==
    (IF export THEN <<"convert", "export", "convertCommand">> ELSE <<"convert", "convertCommand">>) \o Shown
Path(e, d) ==
    CASE e = "present" -> CachedPath(d)
      [] e = "zerocopy" -> ZeroCopyPath
      [] e \in {"triangle", "export"} -> TrianglePath(d, e = "export")
      [] e \in {"convert", "convertExport"} -> ConvertPath(e = "convertExport")
      [] e = "clear" -> <<"clear">> \o Shown

At(stage) == frame.todo # <<>> /\ Head(frame.todo) = stage
Bind(objs) == [frame EXCEPT !.todo = Tail(@), !.refs = @ \union objs]
Finish(objs) == frame' = Idle /\ live' = objs \ frame.own

\* A caller asks for a frame.  A forwarded draw takes the cached path when the
\* scratch cache is on; zero copy takes a mapped buffer and no geometry; the
\* export is of the built-in triangle; clear and convert draw nothing.
Call(e, d, b) ==
    /\ frame = Idle
    /\ (d = None) = (e \in {"clear", "convert", "convertExport"})
    /\ (b = None) = (e # "zerocopy")
    /\ e \in {"present", "zerocopy"} => mode.scratch
    /\ e = "triangle" => ~mode.scratch
    /\ e = "zerocopy" => b \in mapped
    /\ e \in {"zerocopy", "export"} => ~HasGeometry(d)
    /\ frame' = [Idle EXCEPT !.todo = Path(e, d), !.d = d, !.buf = b]
    /\ UNCHANGED <<mode, cache, bytes, live, stray, gpu, mapped>>

(******************************** the stages *********************************)
\* What an object of the call's own is built from, as far as it depends on the draw.
Content(kind) ==
    CASE kind = "ownPipeline" -> BuiltFrom(frame.d)
      [] kind = "ownGeometry" -> frame.d.mesh
      [] kind = "ownTexture" -> frame.d.texs[frame.next]
      [] OTHER -> None

\* An object of the call's own: freed by its guard when the call ends, however
\* it ends, except the handles the guard has not been told of.  The textures of
\* the frame are one stage for them all.
BuildOwned(kind) ==
    /\ At(kind)
    /\ \/ LET o == Object(kind, Content(kind))
              texture == kind = "ownTexture"
              more == texture /\ frame.next # Len(frame.d.texs)
          IN
          /\ kind = "ownPipeline" => Compiles(frame.d)
          /\ frame' = [frame EXCEPT !.todo = IF more THEN @ ELSE Tail(@),
                                    !.next = IF texture THEN @ + 1 ELSE @,
                                    !.refs = @ \union {o}, !.own = @ \union {o}]
          /\ live' = live \union {o}
          /\ UNCHANGED stray
       \/ \E n \in 0..(Len(Calls(kind)) - 1) :
          /\ stray' = stray \union Lost(kind, n)
          /\ Finish(live)
    /\ UNCHANGED <<mode, cache, bytes, gpu, mapped>>

Full(p) == Cardinality(DOMAIN cache[p]) >= Cap[p]
\* Everything a cache holds goes at once; the objects of the others stay.
Swept(p) == IF Full(p) THEN Range(cache[p]) ELSE {}

\* A cache that makes room before it builds: scratch, imports and set layouts.
Fetch(p, key) ==
    /\ \/ /\ key \in DOMAIN cache[p]
          /\ frame' = Bind({cache[p][key]})
          /\ UNCHANGED <<cache, live, stray>>
       \/ LET o == Object(p, key) IN
          /\ key \notin DOMAIN cache[p]
          /\ cache' = [cache EXCEPT ![p] = Add(IF Full(p) THEN Empty ELSE @, key, o)]
          /\ live' = (live \ Swept(p)) \union {o}
          /\ frame' = Bind({o})
          /\ UNCHANGED stray
       \/ \E n \in 0..(Len(Calls(p)) - 1) :
          /\ key \notin DOMAIN cache[p]
          /\ cache' = IF Full(p) THEN [cache EXCEPT ![p] = Empty] ELSE cache
          /\ stray' = stray \union Lost(p, n)
          /\ Finish(live \ Swept(p))
    /\ UNCHANGED <<mode, bytes, gpu, mapped>>

SizedScratch == At("scratch") /\ Fetch("scratch", ScratchKey(frame.d))
ImportGuestBuffer == At("imports") /\ Fetch("imports", frame.buf)
DescSetLayout == At("layouts") /\ Fetch("layouts", Sig(frame.d))

\* The pipeline cache with the fail-closed bound applied: pipelines, shader
\* modules and render passes go together.
OverBound == Full("pipelines") \/ Full("modules")
Kept == IF OverBound
        THEN [cache EXCEPT !.pipelines = Empty, !.modules = Empty, !.passes = Empty] ELSE cache
KeptLive == IF OverBound
            THEN live \ UNION {Range(cache[p]) : p \in {"pipelines", "modules", "passes"}} ELSE live

WithPass(c, d) == IF d.depth \in DOMAIN c.passes THEN c
                  ELSE [c EXCEPT !.passes = Add(@, d.depth, Object("passes", d.depth))]
\* build_pipeline asks for the set layout of the draw, and that cache may be full.
WithLayout(c, d) ==
    IF Sig(d) \in DOMAIN c.layouts \union {None} THEN c
    ELSE [c EXCEPT !.layouts = Add(IF Full("layouts") THEN Empty ELSE @, Sig(d), Object("layouts", Sig(d)))]
WithModules(c, d) ==
    [c EXCEPT !.modules = [s \in DOMAIN @ \union {d.vs, d.fs} |->
                              IF s \in DOMAIN @ THEN @[s] ELSE Object("modules", s)]]
HeldIn(c) == UNION {Range(c[p]) : p \in Parts}

PipelineHit ==
    LET d == frame.d
        c == WithPass(Kept, d)
        k == PipelineKey(d)
    IN  /\ At("pipeline")
        /\ k \in DOMAIN Kept.pipelines
        /\ cache' = c
        /\ live' = KeptLive \union HeldIn(c)
        /\ frame' = Bind({c.pipelines[k], c.passes[d.depth]})
        /\ UNCHANGED <<mode, bytes, stray, gpu, mapped>>

PipelineBuilt ==
    LET d == frame.d
        o == Object("pipelines", BuiltFrom(d))
        l == WithLayout(WithPass(Kept, d), d)
        c == [WithModules(l, d) EXCEPT !.pipelines = Add(@, PipelineKey(d), o)]
    IN  /\ At("pipeline")
        /\ PipelineKey(d) \notin DOMAIN Kept.pipelines
        /\ Compiles(d)
        /\ cache' = c
        /\ live' = (KeptLive \ (Range(cache.layouts) \ Range(c.layouts))) \union HeldIn(c)
        /\ frame' = Bind({o, c.passes[d.depth]})
        /\ UNCHANGED <<mode, bytes, stray, gpu, mapped>>

\* The render pass, a shader module, the set layout or the pipeline failed: the
\* modules made for this pipeline are destroyed and only what was finished stays.
PipelineFailed ==
    LET d == frame.d
        c1 == WithPass(Kept, d)
        c2 == WithLayout(c1, d)
        c3 == IF c2 # c1 /\ Full("layouts") THEN [c1 EXCEPT !.layouts = Empty] ELSE c1
        missed == PipelineKey(d) \notin DOMAIN Kept.pipelines
    IN  /\ At("pipeline")
        /\ missed \/ d.depth \notin DOMAIN Kept.passes
        /\ \E c \in IF missed THEN {Kept, c1, c2, c3} ELSE {Kept} :
            /\ cache' = c
            /\ Finish((KeptLive \ (Range(cache.layouts) \ Range(c.layouts))) \union HeldIn(c))
        /\ UNCHANGED <<mode, bytes, stray, gpu, mapped>>

GetOrUploadGeometry_KeepsBytes ==
    LET key == frame.d.mesh
        o == Object("geoms", key)
        full == Full("geoms") \/ bytes.geoms + 1 > ByteCap
    IN  /\ At("geoms")
        /\ \/ /\ key \in DOMAIN cache.geoms
              /\ frame' = Bind({cache.geoms[key]})
              /\ UNCHANGED <<cache, bytes, live, stray>>
           \/ /\ key \notin DOMAIN cache.geoms
              /\ cache' = [cache EXCEPT !.geoms = Add(IF full THEN Empty ELSE @, key, o)]
              /\ bytes' = [bytes EXCEPT !.geoms = @ + 1]
              /\ live' = (IF full THEN live \ Range(cache.geoms) ELSE live) \union {o}
              /\ frame' = Bind({o})
              /\ UNCHANGED stray
           \/ \E n \in 0..(Len(GeometryCalls) - 1) :
              /\ key \notin DOMAIN cache.geoms
              /\ stray' = stray \union Lost("geoms", n)
              /\ Finish(live)
              /\ UNCHANGED <<cache, bytes>>
        /\ UNCHANGED <<mode, gpu, mapped>>

\* Meshes: uploaded first, and only then is a full cache emptied.
GetOrUploadGeometry ==
    LET key == frame.d.mesh
        o == Object("geoms", key)
        full == Full("geoms") \/ bytes.geoms + 1 > ByteCap
    IN  /\ At("geoms")
        /\ \/ /\ key \in DOMAIN cache.geoms
              /\ frame' = Bind({cache.geoms[key]})
              /\ UNCHANGED <<cache, bytes, live, stray>>
           \/ /\ key \notin DOMAIN cache.geoms
              /\ cache' = [cache EXCEPT !.geoms = Add(IF full THEN Empty ELSE @, key, o)]
              /\ bytes' = [bytes EXCEPT !.geoms = (IF full THEN 0 ELSE @) + 1]
              /\ live' = (IF full THEN live \ Range(cache.geoms) ELSE live) \union {o}
              /\ frame' = Bind({o})
              /\ UNCHANGED stray
           \/ \E n \in 0..(Len(GeometryCalls) - 1) :
              /\ key \notin DOMAIN cache.geoms
              /\ stray' = stray \union Lost("geoms", n)
              /\ Finish(live)
              /\ UNCHANGED <<cache, bytes>>
        /\ UNCHANGED <<mode, gpu, mapped>>

\* Textures are evicted here only: the call has bound none yet.
TrimTexCache ==
    LET full == Full("texs") \/ bytes.texs >= ByteCap IN
    /\ At("trim")
    /\ cache' = IF full THEN [cache EXCEPT !.texs = Empty] ELSE cache
    /\ bytes' = IF full THEN [bytes EXCEPT !.texs = 0] ELSE bytes
    /\ live' = IF full THEN live \ Range(cache.texs) ELSE live
    /\ frame' = Bind({})
    /\ UNCHANGED <<mode, stray, gpu, mapped>>

FreePending_Nothing == {}
FreePending == UNION {{p.image, p.staging} : p \in Range(frame.pend)}

\* One texture of the frame: a hit is written into the set at once, a miss is
\* allocated and staged and waits for the one shared upload after the last one.
ResolveTexture ==
    LET t == frame.d.texs[frame.next]
        p == [image |-> Object("texs", t), staging |-> Object("staging", t)]
        rest == IF frame.next = Len(frame.d.texs) THEN Tail(frame.todo) ELSE frame.todo
    IN  /\ At("texs")
        /\ \/ /\ t \in DOMAIN cache.texs
              /\ frame' = [frame EXCEPT !.todo = rest, !.next = @ + 1, !.refs = @ \union {cache.texs[t]}]
              /\ UNCHANGED <<live, stray>>
           \/ /\ t \notin DOMAIN cache.texs
              /\ frame' = [frame EXCEPT !.todo = rest, !.next = @ + 1, !.pend = Append(@, p)]
              /\ live' = live \union {p.image, p.staging}
              /\ UNCHANGED stray
           \/ \E n \in 0..(Len(TextureCalls) - 1) :
              /\ t \notin DOMAIN cache.texs
              /\ stray' = stray \union Lost("texs", n)
              /\ Finish(live \ FreePending)
        /\ UNCHANGED <<mode, cache, bytes, gpu, mapped>>

\* Nothing missed: no upload.  Otherwise the reusable context is built on first
\* use, the copies are submitted once and waited for, ...
UploadTextures ==
    /\ At("upload")
    /\ \/ /\ frame.pend = <<>>
          /\ frame' = Bind({})
          /\ UNCHANGED <<cache, live, stray, gpu>>
       \/ /\ frame.pend # <<>>
          /\ gpu = {}
          /\ LET o == Object("upload", "ctx")
                 ctx == IF cache.upload = Empty THEN {o} ELSE Range(cache.upload)
             IN  /\ cache' = [cache EXCEPT !.upload = IF @ = Empty THEN Add(@, "ctx", o) ELSE @]
                 /\ live' = live \union ctx
                 /\ gpu' = ctx \union FreePending
          /\ UNCHANGED <<frame, stray>>
       \/ \E n \in 0..(Len(UploadCalls) - 1) :
          /\ frame.pend # <<>>
          /\ gpu = {}
          /\ cache.upload = Empty
          /\ stray' = stray \union Lost("upload", n)
          /\ Finish(live \ FreePending)
          /\ UNCHANGED <<cache, gpu>>
    /\ UNCHANGED <<mode, bytes, mapped>>

LastMiss(t) == CHOOSE i \in DOMAIN frame.pend :
                   /\ frame.pend[i].image.key = t
                   /\ \A j \in DOMAIN frame.pend : frame.pend[j].image.key = t => j <= i

CommitUploads_Evicts ==
    /\ At("upload")
    /\ gpu # {}
    /\ gpu' = {}
    /\ \/ LET new == {p.image : p \in Range(frame.pend)}
              full == Cardinality(DOMAIN cache.texs) + Len(frame.pend) > Cap.texs
          IN
          /\ cache' = [cache EXCEPT !.texs = [t \in (IF full THEN {} ELSE DOMAIN @) \union {o.key : o \in new} |->
                          IF t \in {o.key : o \in new} THEN frame.pend[LastMiss(t)].image ELSE @[t]]]
          /\ bytes' = [bytes EXCEPT !.texs = (IF full THEN 0 ELSE @) + Len(frame.pend)]
          /\ live' = (IF full THEN live \ Range(cache.texs) ELSE live) \ {p.staging : p \in Range(frame.pend)}
          /\ frame' = [Bind(new) EXCEPT !.pend = <<>>]
       \/ Finish(live \ FreePending) /\ UNCHANGED <<cache, bytes>>
    /\ UNCHANGED <<mode, stray, mapped>>

\* ... and then every miss gives up its staging buffer and becomes resident.
CommitUploads ==
    /\ At("upload")
    /\ gpu # {}
    /\ gpu' = {}
    /\ \/ LET new == {p.image : p \in Range(frame.pend)} IN
          /\ cache' = [cache EXCEPT !.texs = [t \in DOMAIN @ \union {o.key : o \in new} |->
                          IF t \in {o.key : o \in new} THEN frame.pend[LastMiss(t)].image ELSE @[t]]]
          /\ bytes' = [bytes EXCEPT !.texs = @ + Len(frame.pend)]
          /\ live' = live \ {p.staging : p \in Range(frame.pend)}
          /\ frame' = [Bind(new) EXCEPT !.pend = <<>>]
       \/ Finish(live \ FreePending) /\ UNCHANGED <<cache, bytes>>
    /\ UNCHANGED <<mode, stray, mapped>>

\* The frame's commands are recorded and submitted, or the call fails.
Submit ==
    /\ At("submit")
    /\ \/ gpu' = frame.refs /\ frame' = Bind({}) /\ UNCHANGED live
       \/ Finish(live) /\ UNCHANGED gpu
    /\ UNCHANGED <<mode, cache, bytes, stray, mapped>>

\* The fence signals, or the wait reports a lost device: the queue is done with
\* the objects in both.
WaitFence ==
    /\ At("wait")
    /\ gpu' = {}
    /\ \/ frame' = Bind({}) /\ UNCHANGED live
       \/ Finish(live)
    /\ UNCHANGED <<mode, cache, bytes, stray, mapped>>

\* The pixels are read back and handed to the caller, or mapping them failed;
\* the call's own objects go either way.
Present ==
    /\ At("present")
    /\ Finish(live)
    /\ UNCHANGED <<mode, cache, bytes, stray, gpu, mapped>>

\* A DMA map or unmap of a guest drops every import before it takes effect.
ForgetAllGuestImports_Never == UNCHANGED <<live, cache>>
ForgetAllGuestImports == live' = live \ Range(cache.imports) /\ cache' = [cache EXCEPT !.imports = Empty]
Remap(b) ==
    /\ frame = Idle
    /\ ForgetAllGuestImports
    /\ mapped' = IF b \in mapped THEN mapped \ {b} ELSE mapped \union {b}
    /\ UNCHANGED <<mode, bytes, stray, frame, gpu>>

Init ==
    /\ mode \in Modes
    /\ cache = [p \in Parts |-> Empty]
    /\ bytes = [geoms |-> 0, texs |-> 0]
    /\ live = {} /\ stray = {} /\ gpu = {}
    /\ frame = Idle
    /\ mapped \in SUBSET Bufs

OwnedKinds == {"target", "readback", "export", "command", "clear", "convert", "convertCommand",
               "ownModules", "ownPipeline", "ownGeometry", "descs", "ownTexture"}

Stage ==
    \/ \E kind \in OwnedKinds : BuildOwned(kind)
    \/ PipelineHit \/ PipelineBuilt \/ PipelineFailed
    \/ SizedScratch \/ ImportGuestBuffer \/ DescSetLayout
    \/ TrimTexCache \/ GetOrUploadGeometry
    \/ ResolveTexture \/ UploadTextures \/ CommitUploads
    \/ Submit \/ WaitFence \/ Present

Next ==
    \/ \E e \in Entries, d \in Draws \union {None}, b \in Bufs \union {None} : Call(e, d, b)
    \/ Stage
    \/ \E b \in Bufs : Remap(b)

Spec == Init /\ [][Next]_vars

(******************************** properties *********************************)
\* The caches stay within their bounds, textures within one frame's misses of theirs, and the
\* byte counters that the VRAM caps go by are the bytes that are resident.
CachesBounded ==
    /\ \A p \in Bounded \ {"texs", "modules"} : Cardinality(DOMAIN cache[p]) <= Cap[p]
    /\ Cardinality(DOMAIN cache.modules) <= Cap.modules + 1
    /\ Cardinality(DOMAIN cache.texs) <= Cap.texs - 1 + MaxTextures
    /\ bytes.geoms = Cardinality(Range(cache.geoms))
    /\ bytes.texs = Cardinality(Range(cache.texs))

\* The type invariant: every cache holds objects of its own kind under the key they were
\* built from, within its bounds, and the queue is busy only while the call waits for it.
TypeOK ==
    /\ mode \in Modes
    /\ \A p \in Parts : \A k \in DOMAIN cache[p] : cache[p][k].kind = p
    /\ \A p \in Parts \ {"pipelines"} : \A k \in DOMAIN cache[p] : cache[p][k].key = k
    /\ bytes \in [geoms : Nat, texs : Nat]
    /\ CachesBounded
    /\ gpu # {} => At("upload") \/ At("wait")
    /\ frame.pend # <<>> => At("texs") \/ At("upload")
    /\ mapped \subseteq Bufs

\* No object is destroyed under a user: what the call's descriptor set and command buffer name,
\* what the queue executes with and what a cache would hand out next all still exist, whichever
\* cache was emptied or whichever call failed in between.
NothingDangles ==
    /\ gpu \union frame.refs \union frame.own \subseteq live
    /\ FreePending \subseteq live
    /\ Held \subseteq live

\* Between calls every object on the shared device belongs to a cache: no failing call of a
\* forwarded render, at whatever Vulkan call it failed, leaves anything behind.
NoLeak ==
    /\ frame = Idle => live = Held
    /\ stray = {}

\* A frame that is about to be shown was drawn with this draw's own mesh, textures and scanout,
\* into a target of its size, by a pipeline compiled from this draw's own shaders and states.
\* Two things the code does not give it, and the property says so: a cached pipeline may have been
\* compiled for another of the entry points of those shaders, which the key leaves out, and with
\* the scratch cache off no mesh and no texture is ever bound.
FrameIsTheDraws ==
    At("present") /\ frame.d # None =>
        LET d == frame.d
            of(kinds) == {o.key : o \in {r \in frame.refs : r.kind \in kinds}}
            pipelines == of({"pipelines", "ownPipeline"})
        IN  /\ pipelines # {}
            /\ \A b \in pipelines : /\ [b EXCEPT !.entry = d.entry] = BuiltFrom(d)
                                    /\ b.entry \in EntryPoints
                                    /\ ~mode.object => b = BuiltFrom(d)
            /\ of({"geoms", "ownGeometry"}) = IF mode.scratch THEN {d.mesh} \ {None} ELSE {}
            /\ of({"texs", "ownTexture"}) = IF mode.scratch THEN Range(d.texs) ELSE {}
            /\ of({"imports"}) = {frame.buf} \ {None}
            /\ of({"scratch"}) \subseteq {ScratchKey(d)}

\* A draw that names an entry point its shaders do not have is an error and never a frame, as the
\* test of bad entry points asserts.
BadEntryErrs == At("present") /\ frame.d # None => Compiles(frame.d)

\* The GPU never holds an import of guest RAM that is no longer mapped in this process.
ImportsMapped == DOMAIN cache.imports \subseteq mapped
=============================================================================
